---------------------------- MODULE Spec2Model ----------------------------
(***************************************************************************)
(* Model of the navigation and manipulation engine of vibers-js:           *)
(*   - the per-tile texture LOD manager         (components/Region.tsx)    *)
(*   - avatar locomotion with the ground probe  (systems/AvatarController) *)
(*   - the orbit / free-fly camera rig          (systems/CameraController) *)
(*   - the gizmo drag controller and its consumer (Gizmo.tsx, World.tsx)   *)
(*                                                                         *)
(* Numbers are fixed point.  Units:                                        *)
(*   tile distances            metres                                      *)
(*   time stamps (now)         milliseconds                                *)
(*   frame delta (avatar)      centiseconds (10 ms)                        *)
(*   avatar position           1e-5 m   (so velocity[mm/s] * dt[cs])       *)
(*   avatar vertical velocity  mm/s                                        *)
(*   angles                    milliradians                                *)
(*   camera lengths            millimetres                                 *)
(*   prim scale                1e-6                                        *)
(***************************************************************************)
EXTENDS Integers, Sequences, FiniteSets, TLC, Bags

VARIABLES
    \* ---- shared
    now,              \* performance.now() in ms
    lastOp,           \* name of the handler that ran last (history variable)
    \* ---- Region.tsx (one tile)
    currentLOD,       \* currentLODRef: -1 (none yet), 0 High, 1 Medium, 2 Low
    textureLoading,   \* textureLoadingRef: the in-flight guard
    fetchLOD,         \* lod argument of the running loadTextureForLOD, -1 if none
    holdRun,          \* history: the tiers over the applied evaluations made in
                      \* a row at one distance of HoldDistances, and the
                      \* distance of the evaluation whose load is running
    fetchId,          \* history: time at which the running load was started, -1 if none
    texture,          \* tier of the texture in React state, -1 if null
    loading,          \* React state `loading`
    lastCheck,        \* lastCheckRef
    meshVisible,      \* meshRef.current.visible
    lodEval,          \* history: the last evaluation <<distance, current, selected>>
    evalDist,         \* history: distance of the evaluation that issued the fetch
    tierRun,          \* history: tiers after the applied evaluations 200,110,200,130
    \* ---- AvatarController.ts
    keys,             \* keysRef: the lower-cased keys held down
    pos,              \* stateRef.position <<x, y, z>>
    rotation,         \* stateRef.rotation (yaw)
    isFlying,         \* stateRef.isFlying
    isWalking,        \* stateRef.isWalking
    velY,             \* velocityRef.y (x and z are overwritten in every frame)
    fKeyProcessed,    \* fKeyProcessedRef: the fly-toggle latch
    cachedPlanes,     \* cachedPlanesRef of the avatar's ground probe
    lastCacheUpdate,  \* lastCacheUpdateRef of the avatar's ground probe
    scene,            \* the horizontal planes in the three.js scene
    fSampled,         \* history: was "f" held at the last frame that polled it
    fReleased,        \* history: "f" was released since isFlying last flipped
    \* ---- CameraController.ts
    cameraMode,       \* cameraModeRef and window.__cameraMode: "avatar" | "free"
    isDragging,       \* isDraggingRef (orbit rotate gesture)
    isPanning,        \* isPanningRef
    panMiddle,        \* panStartedWithMiddleButtonRef
    lastMouse,        \* lastMousePosRef <<x, y>>
    isRightMouseDown, \* isRightMouseDownRef
    camDistance,      \* cameraStateRef.distance
    azimuth,          \* cameraStateRef.azimuth
    pitch,            \* cameraStateRef.pitch
    panOffset,        \* cameraStateRef.panOffset <<x, y, z>>
    freeFocus,        \* freeCameraFocusRef is set (not null)
    freePosition,     \* freeCameraPositionRef: <<>> (null) or <<x, y, z>>
    freeVelocity,     \* freeCameraVelocityRef <<x, y, z>> in cm/s
    freeRotation,     \* freeCameraRotationRef <<pitch, yaw>>
    camKeys,          \* keysRef of the camera controller
    shiftPressed,     \* window.__shiftPressed
    ctrlPressed,      \* window.__ctrlPressed
    smoothedAvatar,   \* smoothedAvatarPositionRef <<x, y, z>>
    camCachedPlanes,  \* cachedPlanesRef of the camera's ground probe
    camLastCacheUpdate, \* lastCacheUpdateRef of the camera's ground probe
    avatarProp,       \* props avatarPosition and isFlying: [p |-> <<x, y, z>>, flying |-> BOOLEAN]
    \* ---- window flags written by Gizmo.tsx
    gizmoClicked,     \* window.__gizmoClicked
    primDragging,     \* window.__primDragging
    \* ---- Gizmo.tsx and the prim handlers of World.tsx
    draggingAxis,     \* React state draggingAxis: "none" (null), "x", "y", "z"
    dragStart,        \* React state dragStart: <<>> (null) or <<x, y>>
    listener,         \* the installed mousemove/mouseup listeners and their closure
    gizmoMode,        \* React state gizmoMode of World
    editingPrim,      \* id of editingPrim, 0 for null: the gizmo is mounted for it
    prims,            \* React state prims: id -> prim
    serverPrims,      \* the prims as stored by the server
    pendingUpdates,   \* pendingUpdatesRef: id -> partial prim
    saveTimeout,      \* primId of the armed save timeout of saveTimeoutRef, 0 if none
    saveInFlight,     \* the running PrimService.updatePrim calls: [prim, updates,
                      \* touched (history: the fields dragged since it was sent)]
    clearTimers,      \* number of armed 100 ms flag-clearing timeouts
    handleHeld,       \* history: a button pressed on a handle is still down
    lastEmit,         \* history: the last delta handed to onMove/onRotate/onScale
    moves,            \* number of mousemoves the drag listener has handled
    dragOrigin,       \* history: pointer and prim at the pointer-down of the drag
    \* ---- the deselect handler of World.tsx
    deselectCheck,    \* the armed 10 ms check of handleClick, or [handle |-> "none"]
    checkRan,         \* history: what the last check that ran saw and did
    \* ---- the build tool (BuildTool and PrimEditForm)
    btPrims,          \* the prims state of BuildTool: the prims as last loaded
    btEditing,        \* the editingPrim state of BuildTool, <<>> if null
    updateTimeout,    \* the armed 500 ms timeout: [prim, updates], <<>> if none
    formRequests,     \* the running updatePrim / loadPrims calls of the timeouts
    extPending,       \* the editingPrim prop changed; the sync effect has not run
    formEdited,       \* history: field -> the value last typed into the form
    formFailed,       \* history: an update request of the form was rejected
    \* ---- history of the debounced saves
    saveDue,          \* time at which the armed save timeout is due
    sentAt,           \* history: id -> the times at which an update was sent
    rejected,         \* history: <<id, field>> rejected and not dragged since
    resentRejected,   \* history: the last update sent held such a field
    \* ---- OSMTileLoader.ts and the loads of several RegionComponents
    tileCache,        \* TILE_CACHE: the cache keys that hold a texture
    tileFetches,      \* bag of the running TextureLoader.load calls: [key, region,
                      \* live (its loadTextureForLOD call is still awaiting it)]
    fetched,          \* history: the keys for which a TextureLoader.load has
                      \* called onLoad
    regionLoad,       \* region id -> [cur (currentLODRef), tex (texture state),
                      \* loading (textureLoadingRef), lod, waiting (keys awaited)]
    \* ---- SceneContent of World.tsx: the avatar's state as React state
    avatarState,      \* the last value handed to setAvatarState
    initialPosition,  \* avatarState.position of the last render, as passed to
                      \* useAvatarController
    effectPending,    \* the initialPosition effect of the last render has not run
    rebuilds,         \* history: per ground probe, the times of its last two
                      \* rebuilds that found the cache filled
    targetClamped,    \* history: the step just taken was a camera frame that
                      \* raised targetPosition.y to the minimal camera height
    tickPhase         \* "idle" between frames; "avatar" ("skipped") after the
                      \* avatar's useFrame callback has (not) published in this one

tileVars == <<currentLOD, textureLoading, fetchLOD, fetchId, texture, loading,
              lastCheck, meshVisible, lodEval, evalDist, tierRun, holdRun>>

avatarVars == <<keys, pos, rotation, isFlying, isWalking, velY, fKeyProcessed,
                cachedPlanes, lastCacheUpdate, scene, fSampled, fReleased>>

cameraVars == <<cameraMode, isDragging, isPanning, panMiddle, lastMouse,
                isRightMouseDown, camDistance, azimuth, pitch, panOffset, freeFocus,
                freePosition, freeVelocity, freeRotation, camKeys, shiftPressed,
                ctrlPressed, smoothedAvatar, camCachedPlanes, camLastCacheUpdate,
                avatarProp>>

flagVars == <<gizmoClicked, primDragging>>

gizmoVars == <<draggingAxis, dragStart, listener, gizmoMode, editingPrim, prims,
               serverPrims, pendingUpdates, saveTimeout, saveInFlight, clearTimers,
               handleHeld, lastEmit, moves, dragOrigin>>

formVars == <<btPrims, btEditing, updateTimeout, formRequests, extPending, formEdited,
              formFailed>>

worldVars == <<deselectCheck, checkRan, formVars>>

saveHist == <<saveDue, sentAt, rejected, resentRejected>>

loaderVars == <<tileCache, tileFetches, regionLoad, fetched>>

publishVars == <<avatarState, initialPosition, effectPending, tickPhase>>

probeHist == <<rebuilds>>

vars == <<now, lastOp, tileVars, avatarVars, cameraVars, flagVars, gizmoVars,
          worldVars, saveHist, loaderVars, publishVars, probeHist, targetClamped>>

-----------------------------------------------------------------------------
(* Region.tsx: texture tier selection                                      *)

HIGH_RES_DISTANCE == 120
HIGH_RES_DISTANCE_HYSTERESIS == 140
MEDIUM_RES_DISTANCE == 250
MEDIUM_RES_DISTANCE_HYSTERESIS == 280
REGION_VISIBLE_DISTANCE == 400
LOD_CHECK_INTERVAL == 500

\* Distances fed to the evaluation, around every threshold.
TileDistances == {100, 110, 119, 120, 121, 130, 140, 141, 200, 249, 250, 251,
                  280, 281, 300, 399, 400}
\* Frame spacings of the tile's useFrame, in ms.
TileSteps == {300, 600}
MaxTileNow == 3600

\* getTextureLOD with the High branch leaving only beyond the Medium exit
\* threshold (a wrong constant).
getTextureLOD_WideHigh(distance, cur) ==
    IF cur = 0
    THEN IF distance > MEDIUM_RES_DISTANCE_HYSTERESIS THEN 1 ELSE 0
    ELSE IF cur = 1
         THEN IF distance < HIGH_RES_DISTANCE THEN 0
              ELSE IF distance > MEDIUM_RES_DISTANCE_HYSTERESIS THEN 2 ELSE 1
         ELSE IF distance < MEDIUM_RES_DISTANCE THEN 1 ELSE 2

\* getTextureLOD with the two thresholds of the High band exchanged: High is
\* left beyond 120 and entered below 140.
getTextureLOD_SwappedBand(distance, cur) ==
    IF cur = 0
    THEN IF distance > HIGH_RES_DISTANCE THEN 1 ELSE 0
    ELSE IF cur = 1
         THEN IF distance < HIGH_RES_DISTANCE_HYSTERESIS THEN 0
              ELSE IF distance > MEDIUM_RES_DISTANCE_HYSTERESIS THEN 2 ELSE 1
         ELSE IF distance < MEDIUM_RES_DISTANCE THEN 1 ELSE 2

\* getTextureLOD with the hysteresis dropped in the Medium branch.
getTextureLOD_NoHysteresis(distance, cur) ==
    IF cur = 0
    THEN IF distance > HIGH_RES_DISTANCE_HYSTERESIS THEN 1 ELSE 0
    ELSE IF cur = 1
         THEN IF distance < HIGH_RES_DISTANCE_HYSTERESIS THEN 0
              ELSE IF distance > MEDIUM_RES_DISTANCE THEN 2 ELSE 1
         ELSE IF distance < MEDIUM_RES_DISTANCE THEN 1 ELSE 2

getTextureLOD(distance, cur) ==
    IF cur = 0
    THEN IF distance > HIGH_RES_DISTANCE_HYSTERESIS THEN 1 ELSE 0
    ELSE IF cur = 1
         THEN IF distance < HIGH_RES_DISTANCE THEN 0
              ELSE IF distance > MEDIUM_RES_DISTANCE_HYSTERESIS THEN 2 ELSE 1
         ELSE IF distance < MEDIUM_RES_DISTANCE THEN 1 ELSE 2

\* The scenario of distances whose applied evaluations tierRun follows.
RunDistances == <<200, 110, 200, 130>>

\* tierRun after an applied evaluation at distance d that found tier `before`
\* and left tier `after`.
RunAfter(run, d, before, after) ==
    IF Len(run) \in 1..3 /\ d = RunDistances[Len(run) + 1]
    THEN Append(run, after)
    ELSE IF before = 1 /\ d = RunDistances[1] THEN <<after>> ELSE <<>>

\* The longest row of tiers holdRun keeps: the start and four evaluations.
MaxHold == 5

\* The distances whose rows holdRun follows, one in each band of the tier
\* function: below 120, 120..140, 140..250, 250..280, above 280.
HoldDistances == {105, 135, 195, 265, 290}

NoHold == [d |-> -1, tiers |-> <<>>, pending |-> -1]

\* holdRun after an applied evaluation at distance d that found tier `before`
\* and left tier `after`: the row goes on at the same distance, else starts anew.
HoldAfter(h, d, before, after) ==
    IF d \notin HoldDistances THEN NoHold
    ELSE IF h.d = d /\ h.tiers # <<>>
    THEN [d |-> d, pending |-> -1,
          tiers |-> IF Len(h.tiers) < MaxHold THEN Append(h.tiers, after) ELSE h.tiers]
    ELSE [d |-> d, pending |-> -1, tiers |-> <<before, after>>]

\* holdRun after an evaluation at distance d has started a load.
HoldPending(h, d) == IF d \in HoldDistances THEN [h EXCEPT !.pending = d] ELSE NoHold

TileInit ==
    /\ currentLOD = -1
    /\ textureLoading = TRUE      \* the mount effect has called loadTextureForLOD(1)
    /\ fetchLOD = 1
    /\ fetchId = 0
    /\ texture = -1
    /\ loading = TRUE
    /\ lastCheck = 0
    /\ meshVisible = TRUE
    /\ lodEval = <<>>
    /\ evalDist = -1
    /\ tierRun = <<>>
    /\ holdRun = NoHold

\* The evaluation starts a load whatever load is running.
StartsLoad_Unguarded(newLOD, cur, guard) == newLOD # cur

\* The evaluation starts loadTextureForLOD(newLOD): the tier changed and no load
\* is running (the test of useFrame, and the early return of loadTextureForLOD).
StartsLoad(newLOD, cur, guard) == newLOD # cur /\ ~guard

\* useFrame of RegionComponent: throttled visibility and LOD evaluation; a
\* changed tier starts loadTextureForLOD(newLOD) unless a load is running.
RegionFrame(step, distance) ==
    /\ now + step <= MaxTileNow
    /\ now' = now + step
    /\ lastOp' = "RegionFrame"
    /\ UNCHANGED probeHist
    /\ targetClamped' = FALSE
    /\ UNCHANGED publishVars
    /\ UNCHANGED loaderVars
    /\ UNCHANGED worldVars
    /\ UNCHANGED saveHist
    /\ IF now' - lastCheck > LOD_CHECK_INTERVAL
       THEN /\ meshVisible' = (distance < REGION_VISIBLE_DISTANCE)
            /\ lastCheck' = now'
            /\ IF distance < REGION_VISIBLE_DISTANCE
               THEN LET newLOD == getTextureLOD(distance, currentLOD)
                        start  == StartsLoad(newLOD, currentLOD, textureLoading)
                    IN
                    /\ lodEval' = <<distance, currentLOD, newLOD>>
                    /\ textureLoading' = (textureLoading \/ start)
                    /\ fetchLOD' = IF start THEN newLOD ELSE fetchLOD
                    /\ fetchId' = IF start THEN now' ELSE fetchId
                    /\ loading' = (loading \/ start)
                    \* history: an evaluation during a load is not applied
                    /\ evalDist' = IF start THEN distance ELSE -1
                    /\ tierRun' = IF textureLoading THEN <<>>
                                  ELSE IF start THEN tierRun
                                  ELSE RunAfter(tierRun, distance, currentLOD, currentLOD)
                    /\ holdRun' = IF textureLoading THEN holdRun
                                  ELSE IF start THEN HoldPending(holdRun, distance)
                                  ELSE HoldAfter(holdRun, distance, currentLOD, currentLOD)
               ELSE UNCHANGED <<lodEval, textureLoading, fetchLOD, fetchId, loading,
                                evalDist, tierRun, holdRun>>
       ELSE UNCHANGED <<meshVisible, lastCheck, lodEval, textureLoading, fetchLOD,
                        fetchId, loading, evalDist, tierRun, holdRun>>
    /\ UNCHANGED <<currentLOD, texture, avatarVars, cameraVars, flagVars, gizmoVars>>

\* loadTextureForLOD: the awaited tile load resolves.
FetchSucceeds ==
    /\ textureLoading
    /\ lastOp' = "FetchSucceeds"
    /\ UNCHANGED probeHist
    /\ targetClamped' = FALSE
    /\ UNCHANGED publishVars
    /\ UNCHANGED loaderVars
    /\ UNCHANGED worldVars
    /\ UNCHANGED saveHist
    /\ texture' = fetchLOD
    /\ loading' = FALSE
    /\ currentLOD' = fetchLOD
    /\ textureLoading' = FALSE
    /\ fetchLOD' = -1
    /\ fetchId' = -1
    /\ tierRun' = IF evalDist = -1 THEN <<>>
                  ELSE RunAfter(tierRun, evalDist, currentLOD, fetchLOD)
    /\ holdRun' = IF holdRun.pending = -1 THEN NoHold
                  ELSE HoldAfter(holdRun, holdRun.pending, currentLOD, fetchLOD)
    /\ evalDist' = -1
    /\ UNCHANGED <<now, lastCheck, meshVisible, lodEval, avatarVars, cameraVars, flagVars, gizmoVars>>

\* textureLoadingRef after a rejected load with the finally block left out.
GuardAfterFailure_Held(guard) == guard

\* textureLoadingRef after a rejected load: the finally block releases it.
GuardAfterFailure(guard) == FALSE

\* loadTextureForLOD: the awaited tile load rejects.
FetchFails ==
    /\ textureLoading
    /\ lastOp' = "FetchFails"
    /\ UNCHANGED probeHist
    /\ targetClamped' = FALSE
    /\ UNCHANGED publishVars
    /\ UNCHANGED loaderVars
    /\ UNCHANGED worldVars
    /\ UNCHANGED saveHist
    /\ loading' = FALSE
    /\ textureLoading' = GuardAfterFailure(textureLoading)
    /\ fetchLOD' = -1
    /\ fetchId' = -1
    /\ evalDist' = -1
    /\ tierRun' = <<>>
    /\ holdRun' = IF holdRun.pending = -1 THEN NoHold
                  ELSE [holdRun EXCEPT !.pending = -1]
    /\ UNCHANGED <<now, currentLOD, texture, lastCheck, meshVisible, lodEval,
                   avatarVars, cameraVars, flagVars, gizmoVars>>

-----------------------------------------------------------------------------
(* Fixed-point helpers                                                     *)

Abs(a) == IF a < 0 THEN -a ELSE a
Sgn(a) == IF a < 0 THEN -1 ELSE 1
Max(a, b) == IF a > b THEN a ELSE b
Min(a, b) == IF a < b THEN a ELSE b

\* The doubles that are not finite, as integers beyond every finite value of
\* the model; the numbers of the handlers below follow JavaScript's rules.
PosInfinity == 2^30
NegInfinity == -(2^30)
NaN == 2^30 + 1
Finite(a) == a \notin {NaN, PosInfinity, NegInfinity}

\* -a
JsNeg(a) == IF a = NaN THEN NaN ELSE -a

\* a + b
JsAdd(a, b) ==
    IF a = NaN \/ b = NaN THEN NaN
    ELSE IF ~Finite(a) THEN (IF b = -a THEN NaN ELSE a)
    ELSE IF ~Finite(b) THEN b
    ELSE a + b

\* a - b
JsSub(a, b) == JsAdd(a, JsNeg(b))

\* a * k for a finite k
JsMul(a, k) ==
    IF Finite(a) THEN a * k
    ELSE IF a = NaN \/ k = 0 THEN NaN
    ELSE IF k > 0 THEN a ELSE -a

\* a / n for a finite n > 0, rounded as the fixed point rounds
JsDiv(a, n) == IF Finite(a) THEN a \div n ELSE a

\* Math.max(a, b): NaN if either is
JsMax(a, b) == IF a = NaN \/ b = NaN THEN NaN ELSE Max(a, b)

\* Math.min(a, b): NaN if either is
JsMin(a, b) == IF a = NaN \/ b = NaN THEN NaN ELSE Min(a, b)

\* a * m / 1000, rounded toward zero (m is a factor in thousandths).
MulMilli(a, m) == Sgn(a) * Sgn(m) * ((Abs(a) * Abs(m)) \div 1000)

PI_MILLI == 3142
HALF_PI_MILLI == 1571
TWO_PI_MILLI == 6283

\* sin of x milliradians for 0 <= x <= pi/2, in thousandths (Taylor, degree 7).
SinQuadrant(x) ==
    LET y  == (x * x) \div 1000
        t3 == 1000 - (y \div 42)
        t2 == 1000 - ((y * t3) \div 20000)
        t1 == 1000 - ((y * t2) \div 6000)
    IN Min(1000, (x * t1) \div 1000)

\* Math.sin of an angle in milliradians, in thousandths.
SinMilli(a) ==
    LET r == a % TWO_PI_MILLI                        \* 0 .. 2pi
        h == IF r > PI_MILLI THEN r - PI_MILLI ELSE r  \* 0 .. pi
        q == IF h > HALF_PI_MILLI THEN PI_MILLI - h ELSE h
    IN IF r > PI_MILLI THEN -SinQuadrant(q) ELSE SinQuadrant(q)

\* Math.cos of an angle in milliradians, in thousandths.
CosMilli(a) == SinMilli(a + HALF_PI_MILLI)

-----------------------------------------------------------------------------
(* AvatarController.ts                                                     *)

AVATAR_HEIGHT == 200000          \* 2.0 m
WALK_SPEED == 8                  \* m/s
FLY_SPEED == 40                  \* m/s
ROTATION_SPEED == 2              \* rad/s
GRAVITY_MM == -98                \* -9.8 m/s^2 = -98 mm/s per centisecond
GROUND_HEIGHT == 0
PROBE_LIFT == 2000000            \* the ray starts 20 m above the avatar
FLY_DOWN_MARGIN == 10000         \* 0.1 m
CACHE_INTERVAL == 500            \* ms
REGION_SIZE == 25600000          \* 256 m, edge of a region plane
REGION_Y == 20000                \* 0.2 m, height of the region planes
INV_SQRT2_E4 == 7071             \* 1/sqrt(2) in 1e-4, normalize() of a diagonal
UNITS_PER_M_CS == 1000           \* 1 m/s for 1 cs, in position units
MS_PER_CS == 10

\* The keys the model presses (the handler also reads "s", "d", the arrow
\* keys and "space": mirrored "w" and "a", and aliases).
AvatarKeys == {"f", "w", "a", " ", "shift"}
\* Frame delta-times in centiseconds.
AvatarDeltas == {20, 50}
MaxAvatarNow == 500
\* One second of walking in frames of 10, 20 or 50 ms.
WalkDeltas == {1, 2, 5}
WalkDuration == 1000
FlyKeys == {"f", "w"}
MaxFlyNow == 1500

\* The 256 m plane at the origin that World.tsx shows when no region is loaded.
DefaultPlane == [cx |-> 0, cz |-> 0, y |-> REGION_Y]

\* The downward ray from (x, top, z) meets plane p.
RayHits(p, x, top, z) ==
    /\ Abs(x - p.cx) <= REGION_SIZE \div 2
    /\ Abs(z - p.cz) <= REGION_SIZE \div 2
    /\ p.y <= top

SetMax(S) == CHOOSE m \in S : \A o \in S : o <= m

\* Ground probe with the hit looked up at the avatar's position AFTER the
\* move (what the clamp would need).
ProbeMinHeight(planes, x, y, z) ==
    LET hits == {p.y : p \in {q \in planes : RayHits(q, x, y + PROBE_LIFT, z)}}
    IN IF hits = {} THEN GROUND_HEIGHT + AVATAR_HEIGHT \div 2
       ELSE SetMax(hits) + AVATAR_HEIGHT \div 2

\* The horizontal move of one frame: <<dx, dz>> from the held keys.
MoveVector(ks, flying, yaw, dt) ==
    LET mz == (IF "s" \in ks \/ "arrowdown" \in ks THEN 1 ELSE 0)
              - (IF "w" \in ks \/ "arrowup" \in ks THEN 1 ELSE 0)
        mx == (IF "d" \in ks \/ "arrowright" \in ks THEN 1 ELSE 0)
              - (IF "a" \in ks \/ "arrowleft" \in ks THEN 1 ELSE 0)
        len == (IF flying THEN FLY_SPEED ELSE WALK_SPEED) * UNITS_PER_M_CS * dt
        \* normalize().multiplyScalar(speed * delta)
        nx == IF mx # 0 /\ mz # 0 THEN mx * (((len \div 10) * INV_SQRT2_E4) \div 1000)
              ELSE mx * len
        nz == IF mx # 0 /\ mz # 0 THEN mz * (((len \div 10) * INV_SQRT2_E4) \div 1000)
              ELSE mz * len
        c == CosMilli(yaw)
        sn == SinMilli(yaw)
    IN \* applyAxisAngle((0,1,0), rotation)
       <<MulMilli(nx, c) + MulMilli(nz, sn), MulMilli(nz, c) - MulMilli(nx, sn)>>

\* A vertical branch that forgets gravity.
VerticalVelocity_NoGravity(ks, flying, y, minHeight, vy, dt) == 0

\* velocity.y after the vertical branch of the frame.
VerticalVelocity(ks, flying, y, minHeight, vy, dt) ==
    IF flying
    THEN IF " " \in ks \/ "space" \in ks THEN FLY_SPEED * 1000
         ELSE IF "shift" \in ks
              THEN IF y > minHeight + FLY_DOWN_MARGIN THEN -(FLY_SPEED * 1000) ELSE 0
              ELSE 0
    ELSE vy + GRAVITY_MM * dt

\* stateRef, keysRef and the refs of the hook as constructed.
AvatarRefsInit ==
    /\ keys = {}
    /\ rotation = 0
    /\ isFlying = FALSE
    /\ isWalking = FALSE
    /\ velY = 0
    /\ fKeyProcessed = FALSE
    /\ cachedPlanes = {}
    /\ lastCacheUpdate = 0
    /\ fSampled = FALSE
    /\ fReleased = TRUE

\* The scene is traversed again always.
NeedsRebuild_Always(t, last, cache) == TRUE

\* The test before scene.traverse, at performance.now() = t.
NeedsRebuild(t, last, cache) == t - last > CACHE_INTERVAL \/ cache = {}

\* The times of the last two rebuilds of a filled cache, the one at t included.
LastTwo(times, t) == IF times = <<>> THEN <<t>> ELSE <<times[Len(times)], t>>

ProbeHistInit == rebuilds = [avatar |-> <<>>, camera |-> <<>>]

\* The object useAvatarController hands to onStateChange.
Published(p, r, flying, walking) ==
    [position |-> p, rotation |-> r, isFlying |-> flying, isWalking |-> walking]

\* SceneContent as first rendered around the avatar's state.
PublishInit ==
    /\ avatarState = Published(pos, rotation, isFlying, isWalking)
    /\ initialPosition = pos
    /\ effectPending = FALSE
    /\ tickPhase = "idle"

AvatarInit ==
    /\ AvatarRefsInit
    /\ \/ /\ scene = {}                       \* as constructed, regions loading
          /\ pos = <<0, 200000, 0>>
       \/ /\ scene = {DefaultPlane}           \* after walking to the plane's edge
          /\ pos \in {<<0, 120000, 12700000>>, <<0, 100000, 13000000>>}

\* handleKeyDown
KeyDown(k) ==
    /\ k \notin keys
    /\ keys' = keys \cup {k}
    /\ lastOp' = "KeyDown"
    /\ UNCHANGED probeHist
    /\ targetClamped' = FALSE
    /\ UNCHANGED publishVars
    /\ UNCHANGED loaderVars
    /\ UNCHANGED worldVars
    /\ UNCHANGED saveHist
    /\ UNCHANGED <<now, pos, rotation, isFlying, isWalking, velY, fKeyProcessed,
                   cachedPlanes, lastCacheUpdate, scene, fSampled, fReleased>>
    /\ UNCHANGED <<tileVars, cameraVars, flagVars, gizmoVars>>

\* handleKeyUp
KeyUp(k) ==
    /\ k \in keys
    /\ keys' = keys \ {k}
    /\ fReleased' = (fReleased \/ k = "f")
    /\ lastOp' = "KeyUp"
    /\ UNCHANGED probeHist
    /\ targetClamped' = FALSE
    /\ UNCHANGED publishVars
    /\ UNCHANGED loaderVars
    /\ UNCHANGED worldVars
    /\ UNCHANGED saveHist
    /\ UNCHANGED <<now, pos, rotation, isFlying, isWalking, velY, fKeyProcessed,
                   cachedPlanes, lastCacheUpdate, scene, fSampled>>
    /\ UNCHANGED <<tileVars, cameraVars, flagVars, gizmoVars>>

\* World.tsx loadRegions, resolved with no region: the default plane is shown.
SceneLoaded ==
    /\ scene = {}
    /\ scene' = {DefaultPlane}
    /\ lastOp' = "SceneLoaded"
    /\ UNCHANGED probeHist
    /\ targetClamped' = FALSE
    /\ UNCHANGED publishVars
    /\ UNCHANGED loaderVars
    /\ UNCHANGED worldVars
    /\ UNCHANGED saveHist
    /\ UNCHANGED <<now, keys, pos, rotation, isFlying, isWalking, velY, fKeyProcessed,
                   cachedPlanes, lastCacheUpdate, fSampled, fReleased>>
    /\ UNCHANGED <<tileVars, cameraVars, flagVars, gizmoVars>>

\* A latch that is set by the key and never cleared on release.
LatchAfter_NeverReset(pressed, processed) == processed \/ pressed

\* fKeyProcessedRef after the frame: set by the toggle, cleared when not pressed.
LatchAfter(pressed, processed) ==
    LET set == IF pressed /\ ~processed THEN TRUE ELSE processed
    IN IF ~pressed THEN FALSE ELSE set

\* A ground clamp that leaves the velocity alone.
VelocityAfterClamp_Kept(y, minHeight, vy) == vy

\* velocity.y after the minimum-height clamp: downward movement stops on the
\* ground.
VelocityAfterClamp(y, minHeight, vy) == IF y < minHeight /\ vy < 0 THEN 0 ELSE vy

\* A frame that never returns early.
FrameSkipped_Never(mode) == FALSE

\* useFrame's early return: the avatar is frozen while the camera flies free.
FrameSkipped(mode) == mode = "free"

\* The useFrame callback of useAvatarController, one frame of dt centiseconds.
AvatarFrame(dt) ==
    /\ now' = now + dt * MS_PER_CS
    /\ lastOp' = "AvatarFrame"
    /\ targetClamped' = FALSE
    /\ UNCHANGED <<initialPosition, effectPending>>
    /\ UNCHANGED loaderVars
    /\ UNCHANGED worldVars
    /\ UNCHANGED saveHist
    /\ IF FrameSkipped(cameraMode)
       THEN /\ tickPhase' = "skipped"
            /\ UNCHANGED <<pos, rotation, isFlying, isWalking, velY, fKeyProcessed,
                           cachedPlanes, lastCacheUpdate, fSampled, fReleased,
                           avatarState, rebuilds>>
       ELSE LET fKeyPressed == "f" \in keys
                toggle  == fKeyPressed /\ ~fKeyProcessed
                flying  == IF toggle THEN ~isFlying ELSE isFlying
                move    == MoveVector(keys, flying, rotation, dt)
                moving  == \E k \in {"w", "s", "a", "d", "arrowup", "arrowdown",
                                     "arrowleft", "arrowright"} : k \in keys
                left    == "a" \in keys \/ "arrowleft" \in keys
                right   == "d" \in keys \/ "arrowright" \in keys
                rebuild == NeedsRebuild(now', lastCacheUpdate, cachedPlanes)
                planes  == IF rebuild THEN scene ELSE cachedPlanes
                \* the probe runs at the position BEFORE the move
                minHeight == ProbeMinHeight(planes, pos[1], pos[2], pos[3])
                vy      == VerticalVelocity(keys, flying, pos[2], minHeight, velY, dt)
                y       == pos[2] + vy * dt
            IN
            /\ isFlying' = flying
            /\ fKeyProcessed' = LatchAfter(fKeyPressed, fKeyProcessed)
            /\ fSampled' = fKeyPressed
            /\ fReleased' = (fReleased /\ ~toggle)
            /\ isWalking' = ((left /\ ~right) \/ (right /\ ~left)
                              \/ (("w" \in keys \/ "arrowup" \in keys)
                                   # ("s" \in keys \/ "arrowdown" \in keys)))
            /\ rotation' = IF left \/ right
                           THEN rotation + (IF left THEN 1 ELSE -1)
                                             * ROTATION_SPEED * MS_PER_CS * dt
                           ELSE rotation
            /\ cachedPlanes' = planes
            /\ lastCacheUpdate' = IF rebuild THEN now' ELSE lastCacheUpdate
            /\ rebuilds' = IF rebuild /\ cachedPlanes # {}
                           THEN [rebuilds EXCEPT !.avatar = LastTwo(@, now')]
                           ELSE rebuilds
            /\ pos' = <<pos[1] + move[1], Max(y, minHeight), pos[3] + move[2]>>
            /\ velY' = VelocityAfterClamp(y, minHeight, vy)
            \* onStateChange: setAvatarState with a copy of the state
            /\ avatarState' = Published(pos', rotation', isFlying', isWalking')
            /\ tickPhase' = "avatar"
    /\ UNCHANGED <<keys, scene>>
    /\ UNCHANGED <<tileVars, cameraVars, flagVars, gizmoVars>>

-----------------------------------------------------------------------------
(* Vectors <<x, y, z>> and integer roots                                   *)

VAdd(a, b) == <<a[1] + b[1], a[2] + b[2], a[3] + b[3]>>
VSub(a, b) == <<a[1] - b[1], a[2] - b[2], a[3] - b[3]>>
VZero == <<0, 0, 0>>
\* v * m / 1000 by component.
VMulMilli(v, m) == <<MulMilli(v[1], m), MulMilli(v[2], m), MulMilli(v[3], m)>>

RECURSIVE SqrtSearch(_, _, _)
\* The largest r in lo..hi with r * r <= n.
SqrtSearch(lo, hi, n) ==
    IF lo >= hi THEN lo
    ELSE LET mid == (lo + hi + 1) \div 2 IN
         IF mid * mid <= n THEN SqrtSearch(mid, hi, n) ELSE SqrtSearch(lo, mid - 1, n)

ISqrt(n) == SqrtSearch(0, 46340, n)
VLen(v) == ISqrt(v[1] * v[1] + v[2] * v[2] + v[3] * v[3])

\* v.normalize().multiplyScalar(len): three.js leaves a zero vector zero.
VWithLength(v, len) ==
    LET l == VLen(v) IN
    IF l = 0 THEN VZero
    ELSE <<Sgn(v[1]) * ((Abs(v[1]) * len) \div l),
           Sgn(v[2]) * ((Abs(v[2]) * len) \div l),
           Sgn(v[3]) * ((Abs(v[3]) * len) \div l)>>

RECURSIVE AsinSearch(_, _, _)
\* The largest angle a in lo..hi (milliradians) with sin a <= x (thousandths).
AsinSearch(lo, hi, x) ==
    IF lo >= hi THEN lo
    ELSE LET mid == (lo + hi + 1) \div 2 IN
         IF SinQuadrant(mid) <= x THEN AsinSearch(mid, hi, x) ELSE AsinSearch(lo, mid - 1, x)

\* Math.asin of x thousandths (-1000..1000), in milliradians.
AsinMilli(x) == Sgn(x) * AsinSearch(0, HALF_PI_MILLI, Abs(x))

-----------------------------------------------------------------------------
(* CameraController.ts                                                     *)

MIN_DISTANCE == 2000             \* 2 m
MAX_DISTANCE == 100000           \* 100 m
MIN_PITCH == -1047               \* -pi/3
MAX_PITCH == 1257                \* pi/2.5
INITIAL_DISTANCE == 5000
INITIAL_PITCH == 524             \* pi/6
ZOOM_SENSITIVITY == 100          \* 0.1 m per wheel unit
ROTATION_SENSITIVITY == 5        \* 0.005 rad per pixel
PITCH_SENSITIVITY == 5
PAN_SENSITIVITY == 20            \* 0.02 m per pixel
MOUSE_SENSITIVITY == 2           \* 0.002 rad per pixel
FREE_PITCH_LIMIT == 1471         \* pi/2 - 0.1
FREE_CAMERA_SPEED == 2000        \* 20 m/s in cm/s
FREE_CAMERA_SPEED_FAST == 5000
FREE_CAMERA_SPEED_SLOW == 500
ACCELERATION == 50               \* 50 m/s^2 = 50 cm/s per centisecond
DECELERATION == 30
HEAD_OFFSET == 1500              \* 1.5 m
CAMERA_CLEARANCE == 500          \* 0.5 m above the ground
CLAMP_AVATAR_Y == 10000          \* the clamp needs avatar y < 10
CLAMP_DISTANCE == 4000           \* and distance > 4
SMOOTH_TENTHS == 3               \* lerp(currentAvatarPos, 0.3)
CS_PER_S == 100

\* Pointer coordinates, wheel deltas and frame deltas the model feeds.
MousePoints == {<<0, 0>>, <<0, 300>>}
WheelDeltas == {-2000, 980}
CameraDeltas == {30}
MaxCameraNow == 900
MaxPan == 6000
MaxAzimuth == 400
\* camera.position and camera orientation as read from the renderer (mm, mrad).
CamPositions == {<<0, 5000, 10000>>}
CamEulers == {<<-300, 0>>}
\* The camera's right and up vectors (thousandths) read from camera.matrixWorld.
CamBases == {[right |-> <<1000, 0, 0>>, up |-> <<0, 1000, 0>>]}
\* Poses the avatar publishes (mm): standing at the spawn point, hovering there.
AvatarPoses == {[p |-> <<0, 2000, 0>>, flying |-> FALSE],
                [p |-> <<0, 2000, 0>>, flying |-> TRUE]}
CameraKeys == {"escape"}
\* Pointer-down gestures: rotate, shift-pan, alt-click, on a panel.
MouseDownEvents ==
    {[button |-> 0, alt |-> FALSE, shift |-> FALSE, target |-> "canvas", x |-> 0, y |-> 0],
     [button |-> 0, alt |-> FALSE, shift |-> TRUE, target |-> "canvas", x |-> 0, y |-> 0],
     [button |-> 0, alt |-> TRUE, shift |-> FALSE, target |-> "canvas", x |-> 0, y |-> 0],
     [button |-> 0, alt |-> FALSE, shift |-> FALSE, target |-> "ui", x |-> 0, y |-> 0]}
MouseMoveEvents ==
    {[shift |-> s, x |-> m[1], y |-> m[2]] : s \in BOOLEAN, m \in MousePoints}

\* Math.max(MIN_PITCH, pitch): the upper limit forgotten.
ClampPitch_NoUpper(p) == Max(MIN_PITCH, p)

\* Math.max(MIN_PITCH, Math.min(MAX_PITCH, pitch))
ClampPitch(p) == JsMax(MIN_PITCH, JsMin(MAX_PITCH, p))

\* Math.min(MAX_DISTANCE, distance): the lower limit forgotten.
ClampDistance_NoLower(d) == Min(MAX_DISTANCE, d)

\* Math.max(MIN_DISTANCE, Math.min(MAX_DISTANCE, distance))
ClampDistance(d) == JsMax(MIN_DISTANCE, JsMin(MAX_DISTANCE, d))

CameraInit ==
    /\ cameraMode = "avatar"
    /\ isDragging = FALSE
    /\ isPanning = FALSE
    /\ panMiddle = FALSE
    /\ lastMouse = <<0, 0>>
    /\ isRightMouseDown = FALSE
    /\ camDistance = INITIAL_DISTANCE
    /\ azimuth = 0
    /\ pitch = INITIAL_PITCH
    /\ panOffset = VZero
    /\ freeFocus = FALSE
    /\ freePosition = <<>>
    /\ freeVelocity = VZero
    /\ freeRotation = <<0, 0>>
    /\ camKeys = {}
    /\ shiftPressed = FALSE
    /\ ctrlPressed = FALSE
    /\ smoothedAvatar = <<0, 2000, 0>>
    /\ camCachedPlanes = {}
    /\ camLastCacheUpdate = 0
    /\ avatarProp = [p |-> <<0, 2000, 0>>, flying |-> FALSE]

FlagInit ==
    /\ gizmoClicked = FALSE
    /\ primDragging = FALSE

\* A camera that never looks at the gizmo's flags.
GizmoOwnsInput_Never(clicked, dragging) == FALSE

\* The test both pointer handlers of the camera make before acting:
\* window.__gizmoClicked || window.__primDragging.
GizmoOwnsInput(clicked, dragging) == clicked \/ dragging

\* An Alt+click that enters the free camera with the pan offset left alone.
PanOnEnterFree_Kept(pan) == pan

\* The pan offset after an Alt+click: panOffset.set(0, 0, 0).
PanOnEnterFree(pan) == VZero

\* handleMouseDown.  e = [button, alt, shift, target, x, y]; camPosition and
\* camEuler are camera.position and the Euler angles of camera.quaternion.
CamMouseDown(e, camPosition, camEuler) ==
    /\ lastOp' = "CamMouseDown"
    /\ UNCHANGED probeHist
    /\ targetClamped' = FALSE
    /\ UNCHANGED publishVars
    /\ UNCHANGED loaderVars
    /\ UNCHANGED worldVars
    /\ UNCHANGED saveHist
    /\ IF e.target = "ui" \/ GizmoOwnsInput(gizmoClicked, primDragging)
       THEN UNCHANGED cameraVars
       ELSE IF e.button = 2 /\ cameraMode = "free"
       THEN /\ isRightMouseDown' = TRUE
            /\ lastMouse' = <<e.x, e.y>>
            /\ UNCHANGED <<cameraMode, isDragging, isPanning, panMiddle, camDistance,
                           azimuth, pitch, panOffset, freeFocus, freePosition,
                           freeVelocity, freeRotation, camKeys, shiftPressed, ctrlPressed,
                           smoothedAvatar, camCachedPlanes, camLastCacheUpdate, avatarProp>>
       ELSE IF e.button = 0 /\ e.alt /\ e.target = "canvas"
       THEN /\ freeFocus' = TRUE
            /\ cameraMode' = "free"
            /\ panOffset' = PanOnEnterFree(panOffset)
            /\ freePosition' = camPosition
            /\ freeVelocity' = VZero
            /\ freeRotation' = camEuler
            /\ UNCHANGED <<isDragging, isPanning, panMiddle, lastMouse, isRightMouseDown,
                           camDistance, azimuth, pitch, camKeys, shiftPressed, ctrlPressed,
                           smoothedAvatar, camCachedPlanes, camLastCacheUpdate, avatarProp>>
       ELSE IF e.button = 0
       THEN /\ isPanning' = (IF e.shift THEN TRUE ELSE isPanning)
            /\ panMiddle' = (IF e.shift THEN FALSE ELSE panMiddle)
            /\ isDragging' = (IF e.shift THEN isDragging ELSE TRUE)
            /\ lastMouse' = <<e.x, e.y>>
            /\ UNCHANGED <<cameraMode, isRightMouseDown, camDistance, azimuth, pitch,
                           panOffset, freeFocus, freePosition, freeVelocity, freeRotation,
                           camKeys, shiftPressed, ctrlPressed, smoothedAvatar,
                           camCachedPlanes, camLastCacheUpdate, avatarProp>>
       ELSE IF e.button = 1
       THEN /\ isPanning' = TRUE
            /\ panMiddle' = TRUE
            /\ lastMouse' = <<e.x, e.y>>
            /\ UNCHANGED <<cameraMode, isDragging, isRightMouseDown, camDistance, azimuth,
                           pitch, panOffset, freeFocus, freePosition, freeVelocity,
                           freeRotation, camKeys, shiftPressed, ctrlPressed, smoothedAvatar,
                           camCachedPlanes, camLastCacheUpdate, avatarProp>>
       ELSE UNCHANGED cameraVars
    /\ UNCHANGED <<now, tileVars, avatarVars, flagVars, gizmoVars>>

\* handleMouseMove.  e = [shift, x, y]; basis is the camera's right/up pair.
CamMouseMove(e, basis) ==
    /\ lastOp' = "CamMouseMove"
    /\ UNCHANGED probeHist
    /\ targetClamped' = FALSE
    /\ UNCHANGED publishVars
    /\ UNCHANGED loaderVars
    /\ UNCHANGED worldVars
    /\ UNCHANGED saveHist
    /\ IF GizmoOwnsInput(gizmoClicked, primDragging)
       THEN UNCHANGED cameraVars
       ELSE IF cameraMode = "free" /\ isRightMouseDown
       THEN LET dx == e.x - lastMouse[1]
                dy == e.y - lastMouse[2]
            IN
            /\ freeRotation' = <<Max(-FREE_PITCH_LIMIT,
                                     Min(FREE_PITCH_LIMIT,
                                         freeRotation[1] - dy * MOUSE_SENSITIVITY)),
                                 freeRotation[2] - dx * MOUSE_SENSITIVITY>>
            /\ lastMouse' = <<e.x, e.y>>
            /\ UNCHANGED <<cameraMode, isDragging, isPanning, panMiddle, isRightMouseDown,
                           camDistance, azimuth, pitch, panOffset, freeFocus, freePosition,
                           freeVelocity, camKeys, shiftPressed, ctrlPressed, smoothedAvatar,
                           camCachedPlanes, camLastCacheUpdate, avatarProp>>
       ELSE LET toPan    == isDragging /\ e.shift
                drag1    == IF toPan THEN FALSE ELSE isDragging
                pan1     == IF toPan THEN TRUE ELSE isPanning
                middle1  == IF toPan THEN FALSE ELSE panMiddle
                toRotate == pan1 /\ ~e.shift /\ ~middle1
                drag2    == IF toRotate THEN TRUE ELSE drag1
                pan2     == IF toRotate THEN FALSE ELSE pan1
                dx == JsSub(e.x, lastMouse[1])
                dy == JsSub(e.y, lastMouse[2])
            IN
            /\ isDragging' = drag2
            /\ isPanning' = pan2
            /\ panMiddle' = middle1
            /\ IF ~drag2 /\ ~pan2
               THEN UNCHANGED <<panOffset, azimuth, pitch, lastMouse>>
               ELSE /\ lastMouse' = <<e.x, e.y>>
                    /\ IF pan2 \/ (drag2 /\ e.shift)
                       THEN /\ panOffset' =
                                 VAdd(panOffset,
                                      VAdd(VMulMilli(basis.right, -dx * PAN_SENSITIVITY),
                                           VMulMilli(basis.up, dy * PAN_SENSITIVITY)))
                            /\ UNCHANGED <<azimuth, pitch>>
                       ELSE /\ azimuth' = JsSub(azimuth, JsMul(dx, ROTATION_SENSITIVITY))
                            /\ pitch' = ClampPitch(JsSub(pitch,
                                                         JsMul(dy, PITCH_SENSITIVITY)))
                            /\ UNCHANGED panOffset
            /\ UNCHANGED <<cameraMode, isRightMouseDown, camDistance, freeFocus,
                           freePosition, freeVelocity, freeRotation, camKeys, shiftPressed,
                           ctrlPressed, smoothedAvatar, camCachedPlanes,
                           camLastCacheUpdate, avatarProp>>
    /\ UNCHANGED <<now, tileVars, avatarVars, flagVars, gizmoVars>>

\* handleMouseUp
CamMouseUp(button) ==
    /\ lastOp' = "CamMouseUp"
    /\ UNCHANGED probeHist
    /\ targetClamped' = FALSE
    /\ UNCHANGED publishVars
    /\ UNCHANGED loaderVars
    /\ UNCHANGED worldVars
    /\ UNCHANGED saveHist
    /\ isDragging' = (IF button = 0 THEN FALSE ELSE isDragging)
    /\ isPanning' = (IF button \in {0, 1} THEN FALSE ELSE isPanning)
    /\ isRightMouseDown' = (IF button = 2 THEN FALSE ELSE isRightMouseDown)
    /\ UNCHANGED <<cameraMode, panMiddle, lastMouse, camDistance, azimuth, pitch,
                   panOffset, freeFocus, freePosition, freeVelocity, freeRotation,
                   camKeys, shiftPressed, ctrlPressed, smoothedAvatar, camCachedPlanes,
                   camLastCacheUpdate, avatarProp>>
    /\ UNCHANGED <<now, tileVars, avatarVars, flagVars, gizmoVars>>

\* handleWheel
CamWheel(deltaY) ==
    /\ lastOp' = "CamWheel"
    /\ UNCHANGED probeHist
    /\ targetClamped' = FALSE
    /\ UNCHANGED publishVars
    /\ UNCHANGED loaderVars
    /\ UNCHANGED worldVars
    /\ UNCHANGED saveHist
    /\ camDistance' = ClampDistance(JsAdd(camDistance, JsMul(deltaY, ZOOM_SENSITIVITY)))
    /\ UNCHANGED <<cameraMode, isDragging, isPanning, panMiddle, lastMouse,
                   isRightMouseDown, azimuth, pitch, panOffset, freeFocus, freePosition,
                   freeVelocity, freeRotation, camKeys, shiftPressed, ctrlPressed,
                   smoothedAvatar, camCachedPlanes, camLastCacheUpdate, avatarProp>>
    /\ UNCHANGED <<now, tileVars, avatarVars, flagVars, gizmoVars>>

\* The keydown listeners of the camera: handleEscape, then handleKeyDown.
CamKeyDown(k) ==
    /\ lastOp' = "CamKeyDown"
    /\ UNCHANGED probeHist
    /\ targetClamped' = FALSE
    /\ UNCHANGED publishVars
    /\ UNCHANGED loaderVars
    /\ UNCHANGED worldVars
    /\ UNCHANGED saveHist
    /\ shiftPressed' = (IF k = "shift" THEN TRUE ELSE shiftPressed)
    /\ ctrlPressed' = (IF k = "control" THEN TRUE ELSE ctrlPressed)
    /\ IF k = "escape"
       THEN /\ cameraMode' = "avatar"
            /\ panOffset' = VZero
            /\ freeFocus' = (IF cameraMode = "free" THEN FALSE ELSE freeFocus)
            /\ freePosition' = (IF cameraMode = "free" THEN <<>> ELSE freePosition)
            /\ camKeys' = (IF cameraMode = "free" THEN {} ELSE camKeys)
       ELSE /\ camKeys' = (IF cameraMode = "free"
                              /\ k \in {"w", "a", "s", "d", "arrowup", "arrowdown",
                                        "arrowleft", "arrowright", " ", "q", "e",
                                        "pageup", "pagedown"}
                           THEN camKeys \cup {k} ELSE camKeys)
            /\ UNCHANGED <<cameraMode, panOffset, freeFocus, freePosition>>
    /\ UNCHANGED <<isDragging, isPanning, panMiddle, lastMouse, isRightMouseDown,
                   camDistance, azimuth, pitch, freeVelocity, freeRotation,
                   smoothedAvatar, camCachedPlanes, camLastCacheUpdate, avatarProp>>
    /\ UNCHANGED <<now, tileVars, avatarVars, flagVars, gizmoVars>>

\* handleKeyUp
CamKeyUp(k) ==
    /\ lastOp' = "CamKeyUp"
    /\ UNCHANGED probeHist
    /\ targetClamped' = FALSE
    /\ UNCHANGED publishVars
    /\ UNCHANGED loaderVars
    /\ UNCHANGED worldVars
    /\ UNCHANGED saveHist
    /\ shiftPressed' = (IF k = "shift" THEN FALSE ELSE shiftPressed)
    /\ ctrlPressed' = (IF k = "control" THEN FALSE ELSE ctrlPressed)
    /\ camKeys' = (IF cameraMode = "free" THEN camKeys \ {k} ELSE camKeys)
    /\ UNCHANGED <<cameraMode, isDragging, isPanning, panMiddle, lastMouse,
                   isRightMouseDown, camDistance, azimuth, pitch, panOffset, freeFocus,
                   freePosition, freeVelocity, freeRotation, smoothedAvatar,
                   camCachedPlanes, camLastCacheUpdate, avatarProp>>
    /\ UNCHANGED <<now, tileVars, avatarVars, flagVars, gizmoVars>>

\* SceneContent re-rendered with a new avatarState (World.tsx): new props.
AvatarPropChanged(pose) ==
    /\ pose # avatarProp
    /\ lastOp' = "AvatarPropChanged"
    /\ UNCHANGED probeHist
    /\ targetClamped' = FALSE
    /\ UNCHANGED publishVars
    /\ UNCHANGED loaderVars
    /\ UNCHANGED worldVars
    /\ UNCHANGED saveHist
    /\ avatarProp' = pose
    /\ UNCHANGED <<cameraMode, isDragging, isPanning, panMiddle, lastMouse,
                   isRightMouseDown, camDistance, azimuth, pitch, panOffset, freeFocus,
                   freePosition, freeVelocity, freeRotation, camKeys, shiftPressed,
                   ctrlPressed, smoothedAvatar, camCachedPlanes, camLastCacheUpdate>>
    /\ UNCHANGED <<now, tileVars, avatarVars, flagVars, gizmoVars>>

\* A position of the avatar (1e-5 m) as the camera's fixed point (mm).
ToMm(p) == <<p[1] \div 100, p[2] \div 100, p[3] \div 100>>

\* The avatar position loadRegions sets for the first of n regions: the centre
\* of its plane, 2.2 m up.
RegionPosition(n) ==
    LET gridSize == IF n = 1 THEN 1 ELSE 2
        centre   == ((0 - gridSize) * 30000000) \div 2
    IN <<centre, 220000, centre>>

\* SceneContent rendered with the current avatarState: the camera gets its
\* position and flying flag, useAvatarController its position; an effect of
\* the render before that has not run yet runs first.
Render ==
    /\ \/ avatarState.position # initialPosition
       \/ avatarState.isFlying # avatarProp.flying
    /\ lastOp' = "Render"
    /\ UNCHANGED probeHist
    /\ targetClamped' = FALSE
    /\ pos' = (IF effectPending THEN initialPosition ELSE pos)
    /\ initialPosition' = avatarState.position
    /\ effectPending' = (avatarState.position # initialPosition)
    /\ avatarProp' = [p |-> ToMm(avatarState.position), flying |-> avatarState.isFlying]
    /\ UNCHANGED <<avatarState, tickPhase>>
    /\ UNCHANGED <<keys, rotation, isFlying, isWalking, velY, fKeyProcessed,
                   cachedPlanes, lastCacheUpdate, scene, fSampled, fReleased>>
    /\ UNCHANGED <<cameraMode, isDragging, isPanning, panMiddle, lastMouse,
                   isRightMouseDown, camDistance, azimuth, pitch, panOffset, freeFocus,
                   freePosition, freeVelocity, freeRotation, camKeys, shiftPressed,
                   ctrlPressed, smoothedAvatar, camCachedPlanes, camLastCacheUpdate>>
    /\ UNCHANGED <<now, tileVars, flagVars, gizmoVars, worldVars, saveHist, loaderVars>>

\* The effect of useAvatarController on initialPosition:
\* stateRef.current.position = [...initialPosition].
InitialPositionEffect ==
    /\ effectPending
    /\ lastOp' = "InitialPositionEffect"
    /\ UNCHANGED probeHist
    /\ targetClamped' = FALSE
    /\ pos' = initialPosition
    /\ effectPending' = FALSE
    /\ UNCHANGED <<avatarState, initialPosition, tickPhase>>
    /\ UNCHANGED <<keys, rotation, isFlying, isWalking, velY, fKeyProcessed,
                   cachedPlanes, lastCacheUpdate, scene, fSampled, fReleased>>
    /\ UNCHANGED <<now, tileVars, cameraVars, flagVars, gizmoVars, worldVars, saveHist,
                   loaderVars>>

\* World.tsx loadRegions, resolved with n regions: their planes are shown and
\* the avatar's state gets the position over the first one.
RegionsLoaded(n) ==
    /\ scene = {}
    /\ lastOp' = "RegionsLoaded"
    /\ UNCHANGED probeHist
    /\ targetClamped' = FALSE
    /\ scene' = {[cx |-> RegionPosition(n)[1], cz |-> RegionPosition(n)[3],
                  y |-> REGION_Y]}
    /\ avatarState' = [avatarState EXCEPT !.position = RegionPosition(n)]
    /\ UNCHANGED <<initialPosition, effectPending, tickPhase>>
    /\ UNCHANGED <<keys, pos, rotation, isFlying, isWalking, velY, fKeyProcessed,
                   cachedPlanes, lastCacheUpdate, fSampled, fReleased>>
    /\ UNCHANGED <<now, tileVars, cameraVars, flagVars, gizmoVars, worldVars, saveHist,
                   loaderVars>>

\* smoothedAvatarPositionRef.current.lerp(currentAvatarPos, 0.3)
Smoothed(s, a) ==
    <<s[1] + ((a[1] - s[1]) * SMOOTH_TENTHS) \div 10,
      s[2] + ((a[2] - s[2]) * SMOOTH_TENTHS) \div 10,
      s[3] + ((a[3] - s[3]) * SMOOTH_TENTHS) \div 10>>

\* Orbit target: pos + spherical offset + pan offset.
OrbitTarget(sm, d, az, pt, pan) ==
    LET horizontal == MulMilli(d, CosMilli(pt))
        vertical   == MulMilli(d, SinMilli(pt))
    IN VAdd(VAdd(sm, <<MulMilli(horizontal, SinMilli(az)),
                       vertical + HEAD_OFFSET,
                       MulMilli(horizontal, CosMilli(az))>>), pan)

\* minCameraHeight: the first hit of the downward ray from the target.
MinCameraHeight(planes, t) ==
    LET hits == {p.y : p \in {q \in planes :
                     RayHits(q, t[1] * 100, t[2] * 100, t[3] * 100)}}
    IN IF hits = {} THEN GROUND_HEIGHT + CAMERA_CLEARANCE
       ELSE SetMax(hits) \div 100 + CAMERA_CLEARANCE

\* The pitch after the ground clamp has lifted the target to minCam.
ClampedPitch(pt, d, minCam, avatarY) ==
    LET adjusted == minCam - avatarY - HEAD_OFFSET
        maxPitch == AsinMilli(Max(-1000, Min(1000,
                        Sgn(adjusted) * ((Abs(adjusted) * 1000) \div d))))
    IN IF pt < maxPitch THEN maxPitch ELSE pt

\* desiredVelocity of the free camera (cm/s) from the held keys.
DesiredVelocity(ks, yaw, speed) ==
    LET forward == <<-SinMilli(yaw), 0, -CosMilli(yaw)>>
        right   == <<CosMilli(yaw), 0, -SinMilli(yaw)>>
        up      == <<0, 1000, 0>>
        has(a, b) == a \in ks \/ b \in ks
        v1 == IF has("w", "arrowup") THEN forward ELSE VZero
        v2 == IF has("s", "arrowdown") THEN VSub(v1, forward) ELSE v1
        v3 == IF has("d", "arrowright") THEN VAdd(v2, right) ELSE v2
        v4 == IF has("a", "arrowleft") THEN VSub(v3, right) ELSE v3
        v5 == IF has(" ", "space") \/ "pageup" \in ks THEN VAdd(v4, up) ELSE v4
        v6 == IF has("q", "pagedown") THEN VSub(v5, up) ELSE v5
    IN VWithLength(v6, speed)

\* The free camera's velocity after one frame of dt centiseconds.  speedDiff
\* is normalized and scaled in place, so the test compares the step's length
\* with itself times delta.
FreeVelocityAfter(v, desired, dt) ==
    LET acceleration == IF VLen(desired) > 0 THEN ACCELERATION ELSE DECELERATION
        accelVector  == VWithLength(VSub(desired, v), acceleration * dt)
        stepLen      == VLen(accelVector)
    IN IF stepLen * CS_PER_S > stepLen * dt THEN VAdd(v, accelVector) ELSE desired

\* The ground collision check made for a flying avatar as well.
ClampApplies_WhileFlying(mode, flying, y, distance) ==
    mode = "avatar" /\ y < CLAMP_AVATAR_Y /\ distance > CLAMP_DISTANCE

\* The condition of the ground collision check.
ClampApplies(mode, flying, y, distance) ==
    mode = "avatar" /\ ~flying /\ y < CLAMP_AVATAR_Y /\ distance > CLAMP_DISTANCE

\* The useFrame callback of useCameraController, one frame of dt centiseconds.
CameraFrame(dt, camPosition) ==
    /\ now' = now + dt * MS_PER_CS
    /\ lastOp' = "CameraFrame"
    /\ tickPhase' = "idle"
    /\ UNCHANGED <<avatarState, initialPosition, effectPending>>
    /\ UNCHANGED loaderVars
    /\ UNCHANGED worldVars
    /\ UNCHANGED saveHist
    /\ smoothedAvatar' = Smoothed(smoothedAvatar, avatarProp.p)
    /\ IF cameraMode = "free"
       THEN LET fp      == IF freePosition = <<>> THEN camPosition ELSE freePosition
                speed   == IF ctrlPressed THEN FREE_CAMERA_SPEED_SLOW
                           ELSE IF shiftPressed THEN FREE_CAMERA_SPEED_FAST
                           ELSE FREE_CAMERA_SPEED
                desired == DesiredVelocity(camKeys, freeRotation[2], speed)
                v       == FreeVelocityAfter(freeVelocity, desired, dt)
            IN
            /\ freeVelocity' = v
            /\ freePosition' = VAdd(fp, <<(v[1] * dt) \div 10, (v[2] * dt) \div 10,
                                          (v[3] * dt) \div 10>>)
            /\ targetClamped' = FALSE
            /\ UNCHANGED <<pitch, camCachedPlanes, camLastCacheUpdate, rebuilds>>
       ELSE LET target  == OrbitTarget(smoothedAvatar', camDistance, azimuth, pitch,
                                       panOffset)
                clamp   == ClampApplies(cameraMode, avatarProp.flying, avatarProp.p[2],
                                        camDistance)
                rebuild == NeedsRebuild(now', camLastCacheUpdate, camCachedPlanes)
                planes  == IF rebuild THEN scene ELSE camCachedPlanes
                minCam  == MinCameraHeight(planes, target)
            IN
            /\ camCachedPlanes' = (IF clamp THEN planes ELSE camCachedPlanes)
            /\ camLastCacheUpdate' = (IF clamp /\ rebuild THEN now' ELSE camLastCacheUpdate)
            /\ rebuilds' = IF clamp /\ rebuild /\ camCachedPlanes # {}
                           THEN [rebuilds EXCEPT !.camera = LastTwo(@, now')]
                           ELSE rebuilds
            /\ targetClamped' = (clamp /\ target[2] < minCam)
            /\ pitch' = (IF clamp /\ target[2] < minCam
                         THEN ClampedPitch(pitch, camDistance, minCam, avatarProp.p[2])
                         ELSE pitch)
            /\ UNCHANGED <<freeVelocity, freePosition>>
    /\ UNCHANGED <<cameraMode, isDragging, isPanning, panMiddle, lastMouse,
                   isRightMouseDown, camDistance, azimuth, panOffset, freeFocus,
                   freeRotation, camKeys, shiftPressed, ctrlPressed, avatarProp>>
    /\ UNCHANGED <<tileVars, avatarVars, flagVars, gizmoVars>>

-----------------------------------------------------------------------------
(* Gizmo.tsx and the prim handlers of World.tsx                            *)
(* Lengths handed to the prim handlers are in 1e-6 units (micrometres,     *)
(* microradians, millionths of a scale factor); camera distances in mm.    *)

MIN_SCALE == 100000              \* Math.max(0.1, ...)
PrimId == 1
NoAxis == "none"                 \* draggingAxis === null
NoStart == <<>>                  \* dragStart === null
NoListener == [axis |-> NoAxis]  \* the drag effect returned early
NoUpdates == <<>>                \* no entry in a map of updates
NoEmit == [axis |-> NoAxis]
NoOrigin == <<>>                 \* no drag is followed from its pointer-down
NoCheck == [handle |-> "none"]   \* no deselect check is armed / has run
NoRequests == <<>>               \* no update request is running
SAVE_DELAY == 300                \* setTimeout(..., 300) of the prim handlers

GizmoAxes == {"x", "y", "z"}
GizmoModeKeys == {"t", "r", "s"}
\* Pointer positions and camera-to-gizmo distances (mm) the model feeds.
GizmoPoints == {<<0, 0>>, <<100, 0>>, <<100, 500>>}
\* The smaller sets of the runs that drag translate/rotate/scale handles in
\* turn, and of the runs that scale with the saves going on.
DragAxes == {"x", "y"}
\* Pointer-down points of the drags followed from their start, the points
\* their mousemoves go to, and the camera-to-gizmo distance kept during them.
DragOrigins == {<<20, 0>>, <<0, 40>>}
DragPoints == {<<0, 0>>, <<20, 40>>, <<50, 40>>, <<50, -60>>, <<-30, 10>>}
DragDistance == 5000
ScalePoints == {<<0, 0>>, <<100, 500>>}
GizmoDistances == {5000, 10000}
MaxMoves == 2
MaxClearTimers == 1
MaxInFlight == 1
PrimIds == {1, 2}

\* The prim as the server first returns it: at (0, 1, 0), unrotated, unit scale.
InitialPrim ==
    [position_x |-> 0, position_y |-> 1000000, position_z |-> 0,
     rotation_x |-> 0, rotation_y |-> 0, rotation_z |-> 0,
     scale_x |-> 1000000, scale_y |-> 1000000, scale_z |-> 1000000]

\* The field of the prim that a handler writes for an axis.
FieldOf(kind, axis) ==
    CASE kind = "position" /\ axis = "x" -> "position_x"
      [] kind = "position" /\ axis = "y" -> "position_y"
      [] kind = "position" /\ axis = "z" -> "position_z"
      [] kind = "rotation" /\ axis = "x" -> "rotation_x"
      [] kind = "rotation" /\ axis = "y" -> "rotation_y"
      [] kind = "rotation" /\ axis = "z" -> "rotation_z"
      [] kind = "scale" /\ axis = "x" -> "scale_x"
      [] kind = "scale" /\ axis = "y" -> "scale_y"
      [] kind = "scale" /\ axis = "z" -> "scale_z"

ScaleFields == {"scale_x", "scale_y", "scale_z"}

\* { ...a, ...b } on records held as functions from field names.
Spread(a, b) ==
    [f \in (DOMAIN a) \cup (DOMAIN b) |-> IF f \in DOMAIN b THEN b[f] ELSE a[f]]

\* A sensitivity that ignores the camera distance (as if it were 10 m).
GizmoDelta_FixedSensitivity(distance, deltaX, deltaY, axis, mode) ==
    LET delta == (IF axis = "x" THEN deltaX ELSE -deltaY) * 10000 * 2
    IN IF mode = "translate" THEN delta
       ELSE IF mode = "rotate" THEN delta \div 2
       ELSE delta \div 10

\* handleMouseMove of the gizmo: the delta handed to onMove/onRotate/onScale.
\* sensitivity = distance * 0.002; rotate takes delta * 0.5, scale delta * 0.1.
GizmoDelta(distance, deltaX, deltaY, axis, mode) ==
    LET delta == JsMul(distance, (IF axis = "x" THEN deltaX ELSE -deltaY) * 2)
    IN IF mode = "translate" THEN delta
       ELSE IF mode = "rotate" THEN JsDiv(delta, 2)
       ELSE JsDiv(delta, 10)

\* prim.scale + delta with the lower limit left out.
ScaleAfter_Unclamped(scale, delta) == scale + delta

\* Math.max(0.1, prim.scale + delta)
ScaleAfter(scale, delta) == JsMax(MIN_SCALE, JsAdd(scale, delta))

\* The updates object handlePrimMove / handlePrimRotate / handlePrimScale build
\* from the prim they find in the prims of their render.
PrimUpdates(prim, mode, axis, delta) ==
    IF mode = "translate"
    THEN LET f == FieldOf("position", axis) IN (f :> JsAdd(prim[f], delta))
    ELSE IF mode = "rotate"
    THEN LET f == FieldOf("rotation", axis) IN (f :> JsAdd(prim[f], delta))
    ELSE LET f == FieldOf("scale", axis) IN (f :> ScaleAfter(prim[f], delta))

\* A drag effect that never installs its listeners.
DragEffect_NeverInstalled(axis, start, mode, ps) == NoListener

\* The drag effect of the gizmo for one render: nothing without a session,
\* else mousemove/mouseup listeners closed over that render's values.
DragEffect(axis, start, mode, ps) ==
    IF axis = NoAxis \/ start = NoStart THEN NoListener
    ELSE [axis |-> axis, start |-> start, mode |-> mode, prims |-> ps]

\* window.__primDragging after the effect of a render replaced the previous one:
\* the old cleanup deletes it, the new setup sets it.
DraggingFlagAfter(old, new, flag) ==
    IF new # NoListener THEN TRUE
    ELSE IF old # NoListener THEN FALSE
    ELSE flag

\* The React state and refs of World and Gizmo with no drag under way.
GizmoIdle(mode, editing) ==
    /\ draggingAxis = NoAxis
    /\ dragStart = NoStart
    /\ listener = NoListener
    /\ gizmoMode = mode
    /\ editingPrim = editing
    /\ prims = (PrimId :> InitialPrim)
    /\ serverPrims = (PrimId :> InitialPrim)
    /\ pendingUpdates = NoUpdates
    /\ saveTimeout = 0
    /\ saveInFlight = NoRequests
    /\ clearTimers = 0
    /\ handleHeld = FALSE
    /\ lastEmit = NoEmit
    /\ moves = 0
    /\ dragOrigin = NoOrigin

GizmoInit == GizmoIdle("translate", 0)

\* BuildTool after its mount load: the prims as the server has them, no prim
\* in the form, nothing armed or running.
FormInit ==
    /\ btPrims = [id \in PrimIds |-> InitialPrim]
    /\ btEditing = NoUpdates
    /\ updateTimeout = NoUpdates
    /\ formRequests = NoRequests
    /\ extPending = FALSE
    /\ formEdited = NoUpdates
    /\ formFailed = FALSE

\* No deselect check armed, nothing sent or rejected yet.
WorldInit ==
    /\ deselectCheck = NoCheck
    /\ checkRan = NoCheck
    /\ FormInit
    /\ saveDue = 0
    /\ sentAt = [id \in PrimIds |-> -1]
    /\ rejected = {}
    /\ resentRejected = FALSE

\* map.delete(id) on a map held as a function.
Without(fn, id) ==
    IF (DOMAIN fn) \subseteq {id} THEN NoUpdates
    ELSE [k \in (DOMAIN fn) \ {id} |-> fn[k]]

\* The sequence s without its i-th element.
RemoveAt(s, i) == SubSeq(s, 1, i - 1) \o SubSeq(s, i + 1, Len(s))

\* onPrimSelect(prim): setSelectedPrim(prim); setEditingPrim(prim).
SelectPrim(id) ==
    /\ editingPrim # id
    /\ draggingAxis = NoAxis
    /\ lastOp' = "SelectPrim"
    /\ UNCHANGED probeHist
    /\ targetClamped' = FALSE
    /\ UNCHANGED publishVars
    /\ UNCHANGED loaderVars
    /\ UNCHANGED worldVars
    /\ UNCHANGED saveHist
    /\ editingPrim' = id
    /\ UNCHANGED <<draggingAxis, dragStart, listener, gizmoMode, prims, serverPrims,
                   pendingUpdates, saveTimeout, saveInFlight, clearTimers, handleHeld,
                   lastEmit, moves, dragOrigin>>
    /\ UNCHANGED <<now, tileVars, avatarVars, cameraVars, flagVars>>

\* handlePointerDown on the handle of an axis, and the render it causes.
GizmoPointerDown(axis, point) ==
    /\ editingPrim # 0
    /\ lastOp' = "GizmoPointerDown"
    /\ UNCHANGED probeHist
    /\ targetClamped' = FALSE
    /\ UNCHANGED publishVars
    /\ UNCHANGED loaderVars
    /\ UNCHANGED worldVars
    /\ UNCHANGED saveHist
    /\ draggingAxis' = axis
    /\ dragStart' = point
    /\ gizmoClicked' = TRUE
    /\ handleHeld' = TRUE
    /\ listener' = DragEffect(axis, point, gizmoMode, prims)
    /\ primDragging' = DraggingFlagAfter(listener, listener', primDragging)
    /\ dragOrigin' = IF point \in DragOrigins
                     THEN [point |-> point, prim |-> prims[editingPrim]]
                     ELSE NoOrigin
    /\ UNCHANGED <<gizmoMode, editingPrim, prims, serverPrims, pendingUpdates,
                   saveTimeout, saveInFlight, clearTimers, lastEmit, moves>>
    /\ UNCHANGED <<now, tileVars, avatarVars, cameraVars>>

\* A mousemove that leaves dragStart as it was.
DragStartAfter_Kept(start, point) == start

\* setDragStart({ ...dragStart, x: e.clientX, y: e.clientY })
DragStartAfter(start, point) == point

\* A save timeout that is due at once.
SaveDueAfter_Immediate(t) == t

\* window.setTimeout(..., 300) called at time t: the earliest time it fires.
SaveDueAfter(t) == t + SAVE_DELAY

\* A mousemove on the window while the drag listeners are installed.  The
\* listener works on the values of the render that installed it; the render
\* its own state updates ask for comes later (GizmoRender).
GizmoMouseMove(point, distance) ==
    /\ listener # NoListener
    /\ moves < MaxMoves
    /\ LET deltaX  == point[1] - listener.start[1]
           deltaY  == point[2] - listener.start[2]
           emitted == GizmoDelta(distance, deltaX, deltaY, listener.axis, listener.mode)
           updates == PrimUpdates(listener.prims[editingPrim], listener.mode,
                                  listener.axis, emitted)
           current == IF editingPrim \in DOMAIN pendingUpdates
                      THEN pendingUpdates[editingPrim] ELSE NoUpdates
       IN
       /\ lastEmit' = [axis |-> listener.axis, mode |-> listener.mode,
                       distance |-> distance, deltaX |-> deltaX, deltaY |-> deltaY,
                       delta |-> emitted]
       /\ prims' = [prims EXCEPT ![editingPrim] = Spread(@, updates)]
       /\ pendingUpdates' = Spread(pendingUpdates,
                                   (editingPrim :> Spread(current, updates)))
       /\ saveInFlight' = (IF saveInFlight = NoRequests THEN NoRequests
                           ELSE [i \in DOMAIN saveInFlight |->
                                    IF saveInFlight[i].prim = editingPrim
                                    THEN [saveInFlight[i] EXCEPT
                                             !.touched = @ \cup DOMAIN updates]
                                    ELSE saveInFlight[i]])
       /\ saveTimeout' = editingPrim
       /\ saveDue' = SaveDueAfter(now)
       /\ rejected' = rejected \ {<<editingPrim, f>> : f \in DOMAIN updates}
       /\ dragStart' = DragStartAfter(listener.start, point)
    /\ UNCHANGED <<sentAt, resentRejected, dragOrigin>>
    /\ moves' = moves + 1
    /\ lastOp' = "GizmoMouseMove"
    /\ UNCHANGED probeHist
    /\ targetClamped' = FALSE
    /\ UNCHANGED publishVars
    /\ UNCHANGED loaderVars
    /\ UNCHANGED worldVars
    /\ UNCHANGED <<draggingAxis, listener, gizmoMode, editingPrim, serverPrims,
                   clearTimers, handleHeld>>
    /\ UNCHANGED <<now, tileVars, avatarVars, cameraVars, flagVars>>

\* The render after a mousemove: the drag effect is torn down and set up
\* again with the new dragStart and prims.
GizmoRender ==
    /\ listener # DragEffect(draggingAxis, dragStart, gizmoMode, prims)
    /\ lastOp' = "GizmoRender"
    /\ UNCHANGED probeHist
    /\ targetClamped' = FALSE
    /\ UNCHANGED publishVars
    /\ UNCHANGED loaderVars
    /\ UNCHANGED worldVars
    /\ UNCHANGED saveHist
    /\ listener' = DragEffect(draggingAxis, dragStart, gizmoMode, prims)
    /\ primDragging' = DraggingFlagAfter(listener, listener', primDragging)
    /\ UNCHANGED <<draggingAxis, dragStart, gizmoMode, editingPrim, prims, serverPrims,
                   pendingUpdates, saveTimeout, saveInFlight, clearTimers, handleHeld,
                   lastEmit, moves, dragOrigin>>
    /\ UNCHANGED <<now, tileVars, avatarVars, cameraVars, gizmoClicked>>

\* The pointer button is released: handleMouseUp if the listeners are
\* installed, and the render that removes them.
GizmoMouseUp ==
    /\ lastOp' = "GizmoMouseUp"
    /\ UNCHANGED probeHist
    /\ targetClamped' = FALSE
    /\ UNCHANGED publishVars
    /\ UNCHANGED loaderVars
    /\ UNCHANGED worldVars
    /\ UNCHANGED saveHist
    /\ handleHeld' = FALSE
    /\ IF listener # NoListener
       THEN /\ clearTimers < MaxClearTimers
            /\ draggingAxis' = NoAxis
            /\ dragStart' = NoStart
            /\ clearTimers' = clearTimers + 1
            /\ listener' = DragEffect(NoAxis, NoStart, gizmoMode, prims)
            /\ primDragging' = DraggingFlagAfter(listener, listener', primDragging)
       ELSE UNCHANGED <<draggingAxis, dragStart, clearTimers, listener, primDragging>>
    /\ dragOrigin' = NoOrigin
    /\ UNCHANGED <<gizmoMode, editingPrim, prims, serverPrims, pendingUpdates,
                   saveTimeout, saveInFlight, lastEmit, moves>>
    /\ UNCHANGED <<now, tileVars, avatarVars, cameraVars, gizmoClicked>>

\* A timeout that leaves the flag as it finds it.
FlagAfterTimeout_Kept(flag) == flag

\* delete (window as any).__flag in the timeout of handleMouseUp.
FlagAfterTimeout(flag) == FALSE

\* The 100 ms timeout of handleMouseUp deletes both window flags.
ClearTimerFires ==
    /\ clearTimers > 0
    /\ deselectCheck # NoCheck => deselectCheck.ahead > 0
    /\ lastOp' = "ClearTimerFires"
    /\ UNCHANGED probeHist
    /\ targetClamped' = FALSE
    /\ UNCHANGED publishVars
    /\ UNCHANGED loaderVars
    /\ deselectCheck' = (IF deselectCheck = NoCheck THEN NoCheck
                          ELSE [deselectCheck EXCEPT !.ahead = @ - 1])
    /\ UNCHANGED <<checkRan, formVars>>
    /\ UNCHANGED saveHist
    /\ clearTimers' = clearTimers - 1
    /\ gizmoClicked' = FlagAfterTimeout(gizmoClicked)
    /\ primDragging' = FlagAfterTimeout(primDragging)
    /\ UNCHANGED <<draggingAxis, dragStart, listener, gizmoMode, editingPrim, prims,
                   serverPrims, pendingUpdates, saveTimeout, saveInFlight, handleHeld,
                   lastEmit, moves, dragOrigin>>
    /\ UNCHANGED <<now, tileVars, avatarVars, cameraVars>>

\* The keydown listener of World: t / r / s pick the gizmo mode; the render
\* hands the new mode to the gizmo.
GizmoModeKey(k) ==
    /\ lastOp' = "GizmoModeKey"
    /\ UNCHANGED probeHist
    /\ targetClamped' = FALSE
    /\ UNCHANGED publishVars
    /\ UNCHANGED loaderVars
    /\ UNCHANGED worldVars
    /\ UNCHANGED saveHist
    /\ gizmoMode' = (IF k = "t" THEN "translate"
                     ELSE IF k = "r" THEN "rotate" ELSE "scale")
    /\ gizmoMode' # gizmoMode
    /\ listener' = DragEffect(draggingAxis, dragStart, gizmoMode', prims)
    /\ primDragging' = DraggingFlagAfter(listener, listener', primDragging)
    /\ UNCHANGED <<draggingAxis, dragStart, editingPrim, prims, serverPrims,
                   pendingUpdates, saveTimeout, saveInFlight, clearTimers, handleHeld,
                   lastEmit, moves, dragOrigin>>
    /\ UNCHANGED <<now, tileVars, avatarVars, cameraVars, gizmoClicked>>

\* What the ray of the deselect check can hit first.  Under a press that began
\* on a handle lies that handle, but a prim or a ground plane may be nearer to
\* the camera (the handles are drawn without depth test); elsewhere lies a
\* prim, a ground plane or nothing.
RayFirstHits(onHandle) ==
    IF onHandle THEN {"gizmo", "prim", "plane"} ELSE {"none", "prim", "plane"}

\* The check that deselects on every press.
Deselects_Always(flag, first) == TRUE

\* The delayed check of handleClick: nothing while window.__gizmoClicked is
\* set; else the first hit decides: a gizmo-coloured mesh or a prim keeps the
\* selection, a plane or no hit deselects.
Deselects(flag, first) == ~flag /\ first \in {"none", "plane"}

\* handleClick of World on a left mousedown over the canvas: arms the 10 ms
\* check.  onHandle: this is the mousedown of the press whose pointerdown a
\* gizmo handle has just received; else a press with no handle under it.
\* The check fires before every flag-clearing timeout armed after it, and
\* remembers how many were armed before it.
WorldMouseDown(onHandle) ==
    /\ deselectCheck = NoCheck
    /\ IF onHandle THEN lastOp = "GizmoPointerDown" ELSE ~handleHeld
    /\ lastOp' = "WorldMouseDown"
    /\ UNCHANGED probeHist
    /\ targetClamped' = FALSE
    /\ UNCHANGED publishVars
    /\ UNCHANGED loaderVars
    /\ deselectCheck' = [handle |-> onHandle, ahead |-> clearTimers]
    /\ UNCHANGED <<checkRan, formVars>>
    /\ UNCHANGED <<now, tileVars, avatarVars, cameraVars, flagVars, gizmoVars, saveHist>>

\* The 10 ms timeout of handleClick runs.  onDeselectPrim clears editingPrim,
\* which unmounts the gizmo: its state is gone and its effect is cleaned up.
DeselectCheckRuns ==
    /\ deselectCheck # NoCheck
    /\ lastOp' = "DeselectCheckRuns"
    /\ UNCHANGED probeHist
    /\ targetClamped' = FALSE
    /\ UNCHANGED publishVars
    /\ UNCHANGED loaderVars
    /\ \E first \in RayFirstHits(deselectCheck.handle) :
          LET deselects == Deselects(gizmoClicked, first) IN
          /\ checkRan' = [handle |-> deselectCheck.handle, flag |-> gizmoClicked,
                          deselected |-> deselects]
          /\ IF deselects
             THEN /\ editingPrim' = 0
                  /\ draggingAxis' = NoAxis
                  /\ dragStart' = NoStart
                  /\ listener' = NoListener
                  /\ primDragging' = DraggingFlagAfter(listener, NoListener, primDragging)
             ELSE UNCHANGED <<editingPrim, draggingAxis, dragStart, listener, primDragging>>
    /\ deselectCheck' = NoCheck
    /\ UNCHANGED formVars
    /\ UNCHANGED <<gizmoMode, prims, serverPrims, pendingUpdates, saveTimeout,
                   saveInFlight, clearTimers, handleHeld, lastEmit, moves, dragOrigin>>
    /\ UNCHANGED <<now, tileVars, avatarVars, cameraVars, gizmoClicked, saveHist>>

\* The 300 ms save timeout fires: its closure looks up the pending updates of
\* its own primId and, if there are any, calls PrimService.updatePrim.
SaveTimerFires ==
    /\ saveTimeout # 0
    /\ lastOp' = "SaveTimerFires"
    /\ UNCHANGED probeHist
    /\ targetClamped' = FALSE
    /\ UNCHANGED publishVars
    /\ UNCHANGED loaderVars
    /\ LET id    == saveTimeout
           sends == id \in DOMAIN pendingUpdates
       IN
       /\ sends => Len(saveInFlight) < MaxInFlight
       /\ saveInFlight' = (IF sends
                           THEN Append(saveInFlight,
                                       [prim |-> id, updates |-> pendingUpdates[id],
                                        touched |-> {}])
                           ELSE saveInFlight)
       /\ sentAt' = (IF sends THEN [sentAt EXCEPT ![id] = now] ELSE sentAt)
       /\ resentRejected' = (IF sends
                             THEN \E f \in DOMAIN pendingUpdates[id] :
                                      <<id, f>> \in rejected
                             ELSE resentRejected)
    /\ saveTimeout' = 0
    /\ saveDue' = 0
    /\ UNCHANGED rejected
    /\ UNCHANGED <<draggingAxis, dragStart, listener, gizmoMode, editingPrim, prims,
                   serverPrims, pendingUpdates, clearTimers, handleHeld, lastEmit, moves, dragOrigin>>
    /\ UNCHANGED <<now, tileVars, avatarVars, cameraVars, flagVars, worldVars>>

\* An update request resolves: pendingUpdatesRef.current.delete(primId).
SaveSucceeds ==
    /\ lastOp' = "SaveSucceeds"
    /\ UNCHANGED probeHist
    /\ targetClamped' = FALSE
    /\ UNCHANGED publishVars
    /\ UNCHANGED loaderVars
    /\ \E i \in DOMAIN saveInFlight :
          LET r == saveInFlight[i] IN
          /\ serverPrims' = [serverPrims EXCEPT ![r.prim] = Spread(@, r.updates)]
          /\ pendingUpdates' = Without(pendingUpdates, r.prim)
          /\ saveInFlight' = RemoveAt(saveInFlight, i)
          /\ rejected' = rejected \ {<<r.prim, f>> : f \in DOMAIN r.updates}
    /\ UNCHANGED <<saveDue, sentAt, resentRejected>>
    /\ UNCHANGED <<draggingAxis, dragStart, listener, gizmoMode, editingPrim, prims,
                   saveTimeout, clearTimers, handleHeld, lastEmit, moves, dragOrigin>>
    /\ UNCHANGED <<now, tileVars, avatarVars, cameraVars, flagVars, worldVars>>

\* An update request rejects: loadPrims replaces the prims by the server's; the
\* entry of pendingUpdatesRef stays.
SaveFails ==
    /\ lastOp' = "SaveFails"
    /\ UNCHANGED probeHist
    /\ targetClamped' = FALSE
    /\ UNCHANGED publishVars
    /\ UNCHANGED loaderVars
    /\ \E i \in DOMAIN saveInFlight :
          LET r == saveInFlight[i] IN
          /\ prims' = serverPrims
          /\ saveInFlight' = RemoveAt(saveInFlight, i)
          /\ rejected' = rejected \cup
                            {<<r.prim, f>> : f \in (DOMAIN r.updates) \ r.touched}
    /\ UNCHANGED <<saveDue, sentAt, resentRejected>>
    /\ UNCHANGED <<draggingAxis, dragStart, listener, gizmoMode, editingPrim,
                   serverPrims, pendingUpdates, saveTimeout, clearTimers, handleHeld,
                   lastEmit, moves, dragOrigin>>
    /\ UNCHANGED <<now, tileVars, avatarVars, cameraVars, flagVars, worldVars>>

-----------------------------------------------------------------------------
(* OSMTileLoader.ts under the loads of several RegionComponents            *)

RegionIds == {1, 2}
\* tile_x, tile_y of region 1; every region has the zoom REGION_ZOOM_LEVEL.
FirstTile == <<0, 0>>
\* tile_x, tile_y region 2 may have: the neighbour of region 1, or far away.
RegionTiles == {<<1, 0>>, <<5, 5>>}
\* Distances fed to the evaluations of this specification, one per tier.
LoaderDistances == {100, 200, 300}
MaxFetches == 5

\* cacheKey of loadOSMTile.
TileKey(t) == <<"tile", t[1], t[2]>>
\* cacheKey of loadHighResTile.
HighResKey(t) == <<"highres", t[1], t[2]>>
\* The 2x2 grid loadHighResTile loads.
SubTiles(t) == {<<t[1], t[2]>>, <<t[1] + 1, t[2]>>, <<t[1], t[2] + 1>>,
                <<t[1] + 1, t[2] + 1>>}

\* The key under which the load of tier lod finds or stores its texture.
ResultKey(t, lod) == IF lod = 0 THEN HighResKey(t) ELSE TileKey(t)

\* The keys the load of tier lod for tile t has to fetch: none on a hit of
\* its own key, else those of its tiles TILE_CACHE does not hold.
Needed(t, lod, cache) ==
    IF ResultKey(t, lod) \in cache THEN {}
    ELSE IF lod = 0 THEN {TileKey(s) : s \in SubTiles(t)} \ cache
         ELSE {TileKey(t)} \ cache

\* One TextureLoader.load per key.
FetchesFor(ks, r) == SetToBag({[key |-> k, region |-> r, live |-> TRUE] : k \in ks})

\* The fetches of bag b with those of region r cut off from their load.
Orphaned(b, r) ==
    LET cut(f) == IF f.region = r THEN [f EXCEPT !.live = FALSE] ELSE f
        src(g) == {f \in BagToSet(b) : cut(f) = g}
        RECURSIVE Sum(_)
        Sum(fs) == IF fs = {} THEN 0
                   ELSE LET f == CHOOSE x \in fs : TRUE
                        IN CopiesIn(f, b) + Sum(fs \ {f})
    IN [g \in {cut(f) : f \in BagToSet(b)} |-> Sum(src(g))]




\* The regions mounted: each mount effect has called loadTextureForLOD(1).
LoaderMounted(t2) ==
    /\ tileCache = {}
    /\ fetched = {}
    /\ regionLoad = [r \in RegionIds |->
          [cur |-> -1, tex |-> -1, loading |-> TRUE, lod |-> 1,
           tile |-> IF r = 1 THEN FirstTile ELSE t2,
           waiting |-> {TileKey(IF r = 1 THEN FirstTile ELSE t2)}]]
    /\ tileFetches = FetchesFor({TileKey(FirstTile)}, 1) (+) FetchesFor({TileKey(t2)}, 2)

LoaderInit == LoaderMounted(<<5, 5>>)

\* useFrame of the RegionComponent r at a visible distance: a changed tier
\* starts loadTextureForLOD unless the region's own load is running.  The
\* load fetches the keys it needs and, when it needs none, ends at once.
RegionEval(r, distance) ==
    /\ lastOp' = "RegionEval"
    /\ UNCHANGED probeHist
    /\ targetClamped' = FALSE
    /\ UNCHANGED publishVars
    /\ LET reg    == regionLoad[r]
           newLOD == getTextureLOD(distance, reg.cur)
           start  == newLOD # reg.cur /\ ~reg.loading
           need   == Needed(reg.tile, newLOD, tileCache)
       IN
       IF ~start
       THEN UNCHANGED loaderVars
       ELSE IF need = {}
       THEN /\ regionLoad' = [regionLoad EXCEPT ![r] =
                                 [@ EXCEPT !.cur = newLOD, !.tex = newLOD]]
            /\ tileCache' = tileCache \cup {ResultKey(reg.tile, newLOD)}
            /\ UNCHANGED <<tileFetches, fetched>>
       ELSE /\ BagCardinality(tileFetches) + Cardinality(need) <= MaxFetches
            /\ regionLoad' = [regionLoad EXCEPT ![r] =
                                 [@ EXCEPT !.loading = TRUE, !.lod = newLOD,
                                           !.waiting = need]]
            /\ tileFetches' = tileFetches (+) FetchesFor(need, r)
            /\ UNCHANGED <<tileCache, fetched>>
    /\ UNCHANGED <<now, tileVars, avatarVars, cameraVars, flagVars, gizmoVars,
                   worldVars, saveHist>>

\* The onLoad callback of a TextureLoader.load: loadOSMTile stores the
\* texture; the load that awaits it goes on and ends with its last tile.
TileFetchSucceeds(f) ==
    /\ BagIn(f, tileFetches)
    /\ lastOp' = "TileFetchSucceeds"
    /\ UNCHANGED probeHist
    /\ targetClamped' = FALSE
    /\ UNCHANGED publishVars
    /\ LET
           reg  == regionLoad[f.region]
           left == reg.waiting \ {f.key}
           done == f.live /\ left = {}
       IN
       /\ tileFetches' = tileFetches (-) SetToBag({f})
       /\ tileCache' = tileCache \cup {f.key}
                       \cup (IF done THEN {ResultKey(reg.tile, reg.lod)} ELSE {})
       /\ fetched' = fetched \cup {f.key}
       /\ regionLoad' =
             IF ~f.live THEN regionLoad
             ELSE IF done
                  THEN [regionLoad EXCEPT ![f.region] =
                           [@ EXCEPT !.cur = reg.lod, !.tex = reg.lod,
                                     !.loading = FALSE, !.lod = -1,
                                     !.waiting = {}]]
                  ELSE [regionLoad EXCEPT ![f.region] = [@ EXCEPT !.waiting = left]]
    /\ UNCHANGED <<now, tileVars, avatarVars, cameraVars, flagVars, gizmoVars,
                   worldVars, saveHist>>

\* TILE_CACHE after a rejected fetch, had loadOSMTile stored an entry for it.
CacheAfterFailure_Stored(cache, key) == cache \cup {key}

\* TILE_CACHE after a rejected fetch: loadOSMTile throws at its await and
\* never reaches TILE_CACHE.set.
CacheAfterFailure(cache, key) == cache

\* The onError callback of a TextureLoader.load: Promise.all and with it
\* loadTextureForLOD reject at once; the other fetches of the load run on.
TileFetchFails(f) ==
    /\ BagIn(f, tileFetches)
    /\ lastOp' = "TileFetchFails"
    /\ UNCHANGED probeHist
    /\ targetClamped' = FALSE
    /\ UNCHANGED publishVars
    /\ LET rest == tileFetches (-) SetToBag({f})
       IN
       /\ tileFetches' = IF f.live THEN Orphaned(rest, f.region) ELSE rest
       /\ regionLoad' =
             IF ~f.live THEN regionLoad
             ELSE [regionLoad EXCEPT ![f.region] =
                      [@ EXCEPT !.loading = FALSE, !.lod = -1, !.waiting = {}]]
       /\ tileCache' = CacheAfterFailure(tileCache, f.key)
       /\ UNCHANGED fetched
    /\ UNCHANGED <<now, tileVars, avatarVars, cameraVars, flagVars, gizmoVars,
                   worldVars, saveHist>>

-----------------------------------------------------------------------------
(* Specifications                                                          *)

NextTile ==
    \/ \E step \in TileSteps, d \in TileDistances : RegionFrame(step, d)
    \/ FetchSucceeds
    \/ FetchFails

InitTile ==
    /\ now = 0
    /\ lastOp = "init"
    /\ TileInit
    /\ AvatarInit
    /\ CameraInit
    /\ FlagInit
    /\ GizmoInit
    /\ WorldInit
    /\ LoaderInit
    /\ PublishInit
    /\ ProbeHistInit
    /\ targetClamped = FALSE

SpecTile == InitTile /\ [][NextTile]_vars

\* Alt + left button on the canvas: the gesture that enters the free camera.
AltClick == [button |-> 0, alt |-> TRUE, shift |-> FALSE, target |-> "canvas",
             x |-> 0, y |-> 0]

NextAvatar ==
    \/ \E k \in AvatarKeys : KeyDown(k)
    \/ \E k \in AvatarKeys : KeyUp(k)
    \/ \E dt \in AvatarDeltas : now + dt * MS_PER_CS <= MaxAvatarNow /\ AvatarFrame(dt)
    \/ SceneLoaded
    \/ \E p \in CamPositions, r \in CamEulers : CamMouseDown(AltClick, p, r)
    \/ CamKeyDown("escape")

InitAvatar ==
    /\ now = 0
    /\ lastOp = "init"
    /\ TileInit
    /\ AvatarInit
    /\ CameraInit
    /\ FlagInit
    /\ GizmoInit
    /\ WorldInit
    /\ LoaderInit
    /\ PublishInit
    /\ ProbeHistInit
    /\ targetClamped = FALSE

SpecAvatar == InitAvatar /\ [][NextAvatar]_vars

\* The fly toggle: the toggle key and one movement key, over more frames.
NextFly ==
    \/ \E k \in FlyKeys : KeyDown(k)
    \/ \E k \in FlyKeys : KeyUp(k)
    \/ \E dt \in AvatarDeltas : now + dt * MS_PER_CS <= MaxFlyNow /\ AvatarFrame(dt)
    \/ \E p \in CamPositions, r \in CamEulers : CamMouseDown(AltClick, p, r)
    \/ CamKeyDown("escape")

InitFly ==
    /\ InitAvatar
    /\ scene = {}

SpecFly == InitFly /\ [][NextFly]_vars

\* The camera alone: pointer, wheel and key listeners, prop changes, frames.
NextCamera ==
    \/ \E e \in MouseDownEvents, p \in CamPositions, r \in CamEulers :
            CamMouseDown(e, p, r)
    \/ \E e \in MouseMoveEvents, b \in CamBases :
            /\ CamMouseMove(e, b)
            /\ \A i \in 1..3 : Abs(panOffset'[i]) <= MaxPan
    \/ CamMouseUp(0)
    \/ \E d \in WheelDeltas : CamWheel(d)
    \/ \E k \in CameraKeys : CamKeyDown(k)
    \/ \E k \in CameraKeys : CamKeyUp(k)
    \/ \E pose \in AvatarPoses : AvatarPropChanged(pose)
    \/ \E dt \in CameraDeltas, p \in CamPositions :
            now + dt * MS_PER_CS <= MaxCameraNow /\ CameraFrame(dt, p)

\* The avatar stands at the spawn point; the ground plane is loading or loaded.
InitCamera ==
    /\ now = 0
    /\ lastOp = "init"
    /\ TileInit
    /\ AvatarRefsInit
    /\ pos = <<0, 200000, 0>>
    /\ scene \in {{}, {DefaultPlane}}
    /\ CameraInit
    /\ FlagInit
    /\ GizmoInit
    /\ WorldInit
    /\ LoaderInit
    /\ PublishInit
    /\ ProbeHistInit
    /\ targetClamped = FALSE

SpecCamera == InitCamera /\ [][NextCamera]_vars

\* Walking forward from the spawn point over the bare ground for one second.
NextWalk ==
    \/ KeyDown("w")
    \/ \E dt \in WalkDeltas :
            /\ "w" \in keys
            /\ now + dt * MS_PER_CS <= WalkDuration
            /\ AvatarFrame(dt)

InitWalk ==
    /\ InitAvatar
    /\ scene = {}

SpecWalk == InitWalk /\ [][NextWalk]_vars

\* Editing one prim with the gizmo: handles, pointer moves, mode keys, saves.
NextGizmo ==
    \/ SelectPrim(PrimId)
    \/ \E a \in DragAxes, m \in GizmoPoints : GizmoPointerDown(a, m)
    \/ \E m \in GizmoPoints, d \in GizmoDistances : GizmoMouseMove(m, d)
    \/ GizmoRender
    \/ GizmoMouseUp
    \/ ClearTimerFires
    \/ \E k \in GizmoModeKeys : GizmoModeKey(k)

InitGizmo ==
    /\ InitAvatar
    /\ scene = {}

SpecGizmo == InitGizmo /\ [][NextGizmo]_vars

\* Scaling the selected prim with the gizmo, with the debounced saves.
NextScale ==
    \/ \E a \in GizmoAxes, m \in ScalePoints : GizmoPointerDown(a, m)
    \/ \E m \in ScalePoints, d \in GizmoDistances : GizmoMouseMove(m, d)
    \/ GizmoRender
    \/ GizmoMouseUp
    \/ ClearTimerFires
    \/ SaveTimerFires
    \/ SaveSucceeds
    \/ SaveFails

\* The prim is selected and the scale mode chosen; nothing dragged yet.
InitScale ==
    /\ now = 0
    /\ lastOp = "init"
    /\ TileInit
    /\ AvatarRefsInit
    /\ pos = <<0, 200000, 0>>
    /\ scene = {}
    /\ CameraInit
    /\ FlagInit
    /\ GizmoIdle("scale", PrimId)
    /\ WorldInit
    /\ LoaderInit
    /\ PublishInit
    /\ ProbeHistInit
    /\ targetClamped = FALSE

SpecScale == InitScale /\ [][NextScale]_vars

\* The camera's pointer listeners next to a gizmo that is being dragged.
GuardPoints == {<<0, 0>>, <<40, 300>>}
GuardMoveEvents == {[shift |-> s, x |-> m[1], y |-> m[2]] :
                       s \in BOOLEAN, m \in GuardPoints}

NextGuard ==
    \/ \E e \in MouseDownEvents, p \in CamPositions, r \in CamEulers :
            CamMouseDown(e, p, r)
    \/ \E e \in GuardMoveEvents, b \in CamBases :
            /\ CamMouseMove(e, b)
            /\ \A i \in 1..3 : Abs(panOffset'[i]) <= MaxPan
            /\ Abs(azimuth') <= MaxAzimuth
    \/ CamMouseUp(0)
    \/ CamKeyDown("escape")
    \/ GizmoPointerDown("x", <<0, 0>>)
    \/ GizmoMouseMove(<<100, 0>>, 10000)
    \/ GizmoRender
    \/ GizmoMouseUp
    \/ ClearTimerFires

\* The prim is selected; the camera is in its initial state.
InitGuard ==
    /\ now = 0
    /\ lastOp = "init"
    /\ TileInit
    /\ AvatarRefsInit
    /\ pos = <<0, 200000, 0>>
    /\ scene = {}
    /\ CameraInit
    /\ FlagInit
    /\ GizmoIdle("translate", PrimId)
    /\ WorldInit
    /\ LoaderInit
    /\ PublishInit
    /\ ProbeHistInit
    /\ targetClamped = FALSE

SpecGuard == InitGuard /\ [][NextGuard]_vars

\* Two prims dragged in turn while time passes and the debounced saves run.
SaveAxes == {"x", "y"}
SavePoint == <<100, 500>>
SaveDistance == 10000
TickMs == 150
MaxSaveNow == 900

\* Time passes.  A timeout may fire late, never early.
Tick ==
    /\ now + TickMs <= MaxSaveNow
    /\ now' = now + TickMs
    /\ lastOp' = "Tick"
    /\ UNCHANGED probeHist
    /\ targetClamped' = FALSE
    /\ UNCHANGED publishVars
    /\ UNCHANGED loaderVars
    /\ UNCHANGED <<tileVars, avatarVars, cameraVars, flagVars, gizmoVars, worldVars,
                   saveHist>>

NextSave ==
    \/ \E id \in PrimIds : SelectPrim(id)
    \/ \E a \in SaveAxes : GizmoPointerDown(a, <<0, 0>>)
    \/ GizmoMouseMove(SavePoint, SaveDistance)
    \/ GizmoRender
    \/ GizmoMouseUp
    \/ ClearTimerFires
    \/ now >= saveDue /\ SaveTimerFires
    \/ SaveSucceeds
    \/ SaveFails
    \/ Tick

\* Both prims are loaded, the first one is selected, nothing dragged yet.
InitSave ==
    /\ now = 0
    /\ lastOp = "init"
    /\ TileInit
    /\ AvatarRefsInit
    /\ pos = <<0, 200000, 0>>
    /\ scene = {}
    /\ CameraInit
    /\ FlagInit
    /\ draggingAxis = NoAxis
    /\ dragStart = NoStart
    /\ listener = NoListener
    /\ gizmoMode = "translate"
    /\ editingPrim = PrimId
    /\ prims = [id \in PrimIds |-> InitialPrim]
    /\ serverPrims = [id \in PrimIds |-> InitialPrim]
    /\ pendingUpdates = NoUpdates
    /\ saveTimeout = 0
    /\ saveInFlight = NoRequests
    /\ clearTimers = 0
    /\ handleHeld = FALSE
    /\ lastEmit = NoEmit
    /\ moves = 0
    /\ dragOrigin = NoOrigin
    /\ WorldInit
    /\ LoaderInit
    /\ PublishInit
    /\ ProbeHistInit
    /\ targetClamped = FALSE

SpecSave == InitSave /\ [][NextSave]_vars

\* Presses on a handle and next to it, with the deselect check of World and
\* the flag-clearing timeout of the gizmo.
NextDeselect ==
    \/ SelectPrim(PrimId)
    \/ GizmoPointerDown("x", <<0, 0>>)
    \/ \E h \in BOOLEAN : WorldMouseDown(h)
    \/ GizmoMouseMove(<<100, 0>>, 10000)
    \/ GizmoRender
    \/ GizmoMouseUp
    \/ ClearTimerFires
    \/ DeselectCheckRuns

InitDeselect ==
    /\ InitGuard

SpecDeselect == InitDeselect /\ [][NextDeselect]_vars

\* Timeouts that are armed do fire.
SpecDeselectLive ==
    /\ InitDeselect
    /\ [][NextDeselect]_vars
    /\ WF_vars(ClearTimerFires)
    /\ WF_vars(DeselectCheckRuns)

\* Two RegionComponents over the one TILE_CACHE.  The 500 ms throttle of
\* useFrame is left out: a fetch may take any time, so every order of
\* evaluations and fetch callbacks can happen.
\* clearTileCache: every texture is disposed and TILE_CACHE emptied; the loads
\* that run keep the textures they hold.
ClearTileCache ==
    /\ tileCache # {}
    /\ lastOp' = "clearTileCache"
    /\ UNCHANGED probeHist
    /\ targetClamped' = FALSE
    /\ tileCache' = {}
    /\ UNCHANGED <<tileFetches, regionLoad, fetched>>
    /\ UNCHANGED <<now, tileVars, avatarVars, cameraVars, flagVars, gizmoVars,
                   worldVars, saveHist, publishVars>>

NextLoader ==
    \/ \E r \in RegionIds, d \in LoaderDistances : RegionEval(r, d)
    \/ \E f \in BagToSet(tileFetches) : TileFetchSucceeds(f)
    \/ \E f \in BagToSet(tileFetches) : TileFetchFails(f)

InitLoader ==
    /\ now = 0
    /\ lastOp = "init"
    /\ TileInit
    /\ AvatarRefsInit
    /\ scene = {}
    /\ pos = <<0, 200000, 0>>
    /\ CameraInit
    /\ FlagInit
    /\ GizmoInit
    /\ WorldInit
    /\ \E t2 \in RegionTiles : LoaderMounted(t2)
    /\ PublishInit
    /\ ProbeHistInit
    /\ targetClamped = FALSE

SpecLoader == InitLoader /\ [][NextLoader]_vars

\* The two ground probes over frames of 250, 500 and 510 ms, the default
\* plane arriving at any moment and the avatar starting or ending a flight.
ProbeDeltas == {25, 50, 51}
MaxProbeNow == 2000

NextProbe ==
    \/ \E dt \in ProbeDeltas : now + dt * MS_PER_CS <= MaxProbeNow /\ AvatarFrame(dt)
    \/ \E dt \in ProbeDeltas, p \in CamPositions :
            now + dt * MS_PER_CS <= MaxProbeNow /\ CameraFrame(dt, p)
    \/ SceneLoaded
    \/ \E pose \in AvatarPoses : AvatarPropChanged(pose)

InitProbe == InitCamera

SpecProbe == InitProbe /\ [][NextProbe]_vars

\* The ground clamp of the camera: the avatar standing on a region plane,
\* hovering there, or 12 m up; the camera dragged down to the lowest pitch,
\* zoomed between 3 m and 7 m, switched to the free camera and back.
ClampPoses == {[p |-> <<0, 1200, 0>>, flying |-> FALSE],
               [p |-> <<0, 1200, 0>>, flying |-> TRUE],
               [p |-> <<0, 12000, 0>>, flying |-> FALSE]}
ClampDownEvents ==
    {AltClick,
     [button |-> 0, alt |-> FALSE, shift |-> FALSE, target |-> "canvas", x |-> 0, y |-> 0]}
ClampMoveEvents == {[shift |-> FALSE, x |-> 0, y |-> 400]}
ClampWheelDeltas == {-20, 40}
MaxClampDistance == 7000
MaxClampNow == 900

NextClamp ==
    \/ \E e \in ClampDownEvents, p \in CamPositions, r \in CamEulers :
            CamMouseDown(e, p, r)
    \/ \E e \in ClampMoveEvents, b \in CamBases : CamMouseMove(e, b)
    \/ CamMouseUp(0)
    \/ \E d \in ClampWheelDeltas : CamWheel(d) /\ camDistance' <= MaxClampDistance
    \/ CamKeyDown("escape")
    \/ \E pose \in ClampPoses : AvatarPropChanged(pose)
    \/ \E dt \in CameraDeltas, p \in CamPositions :
            now + dt * MS_PER_CS <= MaxClampNow /\ CameraFrame(dt, p)

InitClamp ==
    /\ InitCamera
    /\ scene = {DefaultPlane}

SpecClamp == InitClamp /\ [][NextClamp]_vars

\* The tile evaluated at the distances of HoldDistances, with loads that
\* succeed or fail.
NextHold ==
    \/ \E step \in TileSteps, d \in HoldDistances : RegionFrame(step, d)
    \/ FetchSucceeds
    \/ FetchFails

InitHold == InitTile

SpecHold == InitHold /\ [][NextHold]_vars

\* The loader with clearTileCache called at any moment; region 2 stays with
\* the load of its mount effect.
NextCache ==
    \/ \E d \in LoaderDistances : RegionEval(1, d)
    \/ \E f \in BagToSet(tileFetches) : TileFetchSucceeds(f)
    \/ \E f \in BagToSet(tileFetches) : TileFetchFails(f)
    \/ ClearTileCache

InitCache ==
    /\ InitLoader
    /\ regionLoad[2].tile = <<1, 0>>

SpecCache == InitCache /\ [][NextCache]_vars

\* The camera's two modes: Alt+click and Escape, with a shift-drag pan, the
\* forward key and frames in between.
ModeDownEvents ==
    {AltClick,
     [button |-> 0, alt |-> FALSE, shift |-> TRUE, target |-> "canvas", x |-> 0, y |-> 0]}
ModeKeys == {"escape", "w"}
MaxModeNow == 900

NextMode ==
    \/ \E e \in ModeDownEvents, p \in CamPositions, r \in CamEulers :
            CamMouseDown(e, p, r)
    \/ \E b \in CamBases :
            /\ CamMouseMove([shift |-> TRUE, x |-> 0, y |-> 300], b)
            /\ \A i \in 1..3 : Abs(panOffset'[i]) <= MaxPan
    \/ CamMouseUp(0)
    \/ \E k \in ModeKeys : CamKeyDown(k)
    \/ CamKeyUp("w")
    \/ \E dt \in CameraDeltas, p \in CamPositions :
            now + dt * MS_PER_CS <= MaxModeNow /\ CameraFrame(dt, p)

InitMode ==
    /\ now = 0
    /\ lastOp = "init"
    /\ TileInit
    /\ AvatarRefsInit
    /\ pos = <<0, 200000, 0>>
    /\ scene = {DefaultPlane}
    /\ CameraInit
    /\ FlagInit
    /\ GizmoInit
    /\ WorldInit
    /\ LoaderInit
    /\ PublishInit
    /\ ProbeHistInit
    /\ targetClamped = FALSE

SpecMode == InitMode /\ [][NextMode]_vars

\* The frame loop: in every frame the avatar's useFrame callback runs, then
\* the camera's.  Key events, the resolved loadRegions and passive effects
\* come between frames; the render that a setAvatarState asks for comes when
\* React's root schedules it, inside the frame (a synchronous root) or after.
TickKeys == {"w"}
TickDeltas == {20}
MaxTickNow == 1600

NextTick ==
    \/ \E k \in TickKeys : tickPhase = "idle" /\ KeyDown(k)
    \/ \E k \in TickKeys : tickPhase = "idle" /\ KeyUp(k)
    \/ \E dt \in TickDeltas :
            /\ tickPhase = "idle"
            /\ now + 2 * dt * MS_PER_CS <= MaxTickNow
            /\ AvatarFrame(dt)
    \/ \E dt \in TickDeltas, p \in CamPositions :
            tickPhase # "idle" /\ CameraFrame(dt, p)
    \/ Render
    \/ tickPhase = "idle" /\ InitialPositionEffect
    \/ \E n \in {1, 2} : tickPhase = "idle" /\ RegionsLoaded(n)

InitTick ==
    /\ now = 0
    /\ lastOp = "init"
    /\ TileInit
    /\ AvatarRefsInit
    /\ pos = <<0, 200000, 0>>
    /\ scene = {}
    /\ CameraInit
    /\ FlagInit
    /\ GizmoInit
    /\ WorldInit
    /\ LoaderInit
    /\ PublishInit
    /\ ProbeHistInit
    /\ targetClamped = FALSE

SpecTick == InitTick /\ [][NextTick]_vars

\* The handlers that clamp, fed with numbers that are not finite as well: the
\* wheel, a rotate drag of the camera, and a drag of a scale handle seen
\* from a camera whose distance to the gizmo is not finite.
NonFinite == {NaN, PosInfinity, NegInfinity}
NonFiniteWheel == NonFinite \cup {980}
NonFiniteMoves == {[shift |-> FALSE, x |-> 0, y |-> d] : d \in {NaN, PosInfinity, 300}}
NonFiniteDistances == {NaN, 10000}

NextNonFinite ==
    \/ \E d \in NonFiniteWheel : CamWheel(d)
    \/ \E e \in MouseDownEvents, p \in CamPositions, r \in CamEulers :
            /\ ~e.alt /\ ~e.shift /\ e.target = "canvas"
            /\ CamMouseDown(e, p, r)
    \/ \E e \in NonFiniteMoves, b \in CamBases : CamMouseMove(e, b)
    \/ CamMouseUp(0)
    \/ GizmoPointerDown("x", <<0, 0>>)
    \/ \E d \in NonFiniteDistances : GizmoMouseMove(<<100, 500>>, d)
    \/ GizmoRender
    \/ GizmoMouseUp
    \/ ClearTimerFires

InitNonFinite ==
    /\ InitScale

SpecNonFinite == InitNonFinite /\ [][NextNonFinite]_vars

-----------------------------------------------------------------------------
\* C3: for every current tier and distance the selector returns: from High,
\* Medium if distance > 140 else High; from Medium, High if distance < 120,
\* Low if distance > 280, else Medium; from Low, Medium if distance < 250
\* else Low.
C3_TierTable ==
    lodEval # <<>> =>
        LET d == lodEval[1]  cur == lodEval[2]  new == lodEval[3] IN
        /\ cur = 0 => new = (IF d > 140 THEN 1 ELSE 0)
        /\ cur = 1 => new = (IF d < 120 THEN 0 ELSE IF d > 280 THEN 2 ELSE 1)
        /\ cur = 2 => new = (IF d < 250 THEN 1 ELSE 2)

\* An evaluation from High exactly on its threshold, which keeps High.
C3_Witness ==
    lastOp = "RegionFrame" /\ lodEval = <<140, 0, 0>>

\* C2 as stated: after the applied evaluations 200, 110, 200, 130 from Medium
\* the tier changed only at 110: the tiers are Medium, High, High, High.
C2_OnlyAt110 ==
    Len(tierRun) = 4 => tierRun = <<1, 0, 0, 0>>

\* C2 amended: from Medium the applied evaluations 200, 110, 200, 130 leave
\* the tiers Medium, High, Medium, Medium: the tier changes at 110 (to High)
\* and at the second 200 (back to Medium, 200 > 140); 130 changes nothing.
C2_TierRun ==
    /\ Len(tierRun) >= 1 => tierRun[1] = 1
    /\ Len(tierRun) >= 2 => tierRun[2] = 0
    /\ Len(tierRun) >= 3 => tierRun[3] = 1
    /\ Len(tierRun) >= 4 => tierRun[4] = 1

\* The whole scenario has been evaluated and applied.
C2_Witness ==
    Len(tierRun) = 4 /\ currentLOD = 1 /\ ~textureLoading

-----------------------------------------------------------------------------
\* C1: after every avatar frame the avatar's y is at least the ground height
\* at its current horizontal position plus the half-height.  The frame probes
\* the ground under the position it had BEFORE the move, so a step from lower
\* onto higher ground ends below this bound.
C1_AboveGround ==
    (lastOp = "AvatarFrame" /\ cameraMode = "avatar")
        => pos[2] >= ProbeMinHeight(scene, pos[1], pos[2], pos[3])

\* C4 as stated: a frame flips isFlying exactly when the toggle key is held
\* and has been released since the last flip, in either camera mode.
C4_FlipOnEveryPress ==
    [][lastOp' = "AvatarFrame"
          => ((isFlying' # isFlying) <=> ("f" \in keys /\ fReleased))]_vars

\* C4: a frame flips isFlying exactly when it runs in the avatar camera mode,
\* sees the toggle key held, and the previous such frame did not see it held;
\* holding the key flips once, and a press no such frame observed flips nothing.
C4_FlipOnSampledEdge ==
    [][lastOp' = "AvatarFrame"
          => ((isFlying' # isFlying)
                 <=> (cameraMode = "avatar" /\ "f" \in keys /\ ~fSampled))]_vars

\* The key was held over a frame, released, pressed again: two flips so far.
C4_Witness ==
    /\ lastOp = "AvatarFrame"
    /\ cameraMode = "avatar"
    /\ "f" \in keys
    /\ fKeyProcessed
    /\ ~isFlying

\* C5: in every reachable state the orbit pitch lies in [-pi/3, pi/2.5].
C5_PitchInRange == pitch >= MIN_PITCH /\ pitch <= MAX_PITCH

\* The ground clamp has raised the pitch to its bound asin((0.5 - 2 - 1.5) / 5).
C5_Witness ==
    /\ lastOp = "CameraFrame"
    /\ cameraMode = "avatar"
    /\ scene = {}
    /\ camDistance = INITIAL_DISTANCE
    /\ pitch = AsinMilli(-600)

\* C6: in every reachable state the orbit distance lies in [2, 100].
C6_DistanceInRange == camDistance >= MIN_DISTANCE /\ camDistance <= MAX_DISTANCE

\* A wheel turn in the free camera mode was clamped to the lower limit.
C6_Witness ==
    /\ lastOp = "CamWheel"
    /\ cameraMode = "free"
    /\ camDistance = MIN_DISTANCE

\* C8 as stated: walking forward from (0,2,0) over flat ground at y = 0, the
\* avatar's y equals 2 after every frame.
C8_StaysAtTwo == lastOp = "AvatarFrame" => pos[2] = 200000

\* C8: walking forward from (0,2,0) for frames summing to 1 s over flat ground
\* at y = 0, x stays 0, z is -8 m/s times the elapsed time, y falls under
\* gravity but never below 1.0 (ground plus half the avatar height), and the
\* avatar ends at (0, 1, -8).
C8_WalkForward ==
    /\ pos[1] = 0
    /\ pos[3] = -(WALK_SPEED * 100 * now)
    /\ pos[2] >= GROUND_HEIGHT + AVATAR_HEIGHT \div 2
    /\ pos[2] <= 200000
    /\ now = WalkDuration => pos = <<0, 100000, -800000>>

\* The second of walking is over and the avatar rests at (0, 1, -8).
C8_Witness ==
    /\ lastOp = "AvatarFrame"
    /\ now = WalkDuration
    /\ pos = <<0, 100000, -800000>>
    /\ ~isFlying
    /\ isWalking

\* C7: with the prim's scales starting at or above 0.1, every scale of the
\* prim stays at or above 0.1 under scale-mode drags of any sign and size: in
\* the local prims, in the pending update, in a running save and on the server.
C7_ScaleFloor ==
    /\ \A id \in DOMAIN prims : \A f \in ScaleFields : prims[id][f] >= MIN_SCALE
    /\ \A id \in DOMAIN pendingUpdates :
          \A f \in ScaleFields \cap DOMAIN pendingUpdates[id] :
              pendingUpdates[id][f] >= MIN_SCALE
    /\ \A i \in DOMAIN saveInFlight :
          \A f \in ScaleFields \cap DOMAIN saveInFlight[i].updates :
              saveInFlight[i].updates[f] >= MIN_SCALE
    /\ \A id \in DOMAIN serverPrims : \A f \in ScaleFields : serverPrims[id][f] >= MIN_SCALE

\* A drag of -1.0 on the Y scale handle was held at 0.1, locally and pending.
C7_Witness ==
    /\ lastOp = "GizmoMouseMove"
    /\ lastEmit.axis = "y"
    /\ lastEmit.mode = "scale"
    /\ lastEmit.delta = -1000000
    /\ prims[PrimId].scale_y = MIN_SCALE
    /\ PrimId \in DOMAIN pendingUpdates
    /\ pendingUpdates[PrimId].scale_y = MIN_SCALE

\* C9: the delta the gizmo emits for a pointer move is determined by the
\* camera distance, the pixel delta, the axis and the mode alone: it is
\* distance x 0.002 x pixels (x 0.5 when rotating, x 0.1 when scaling), the
\* pixels being deltaX on the X axis and -deltaY on Y and Z; 100 px on the X
\* axis in translate mode at 10 m give 2 m.
C9_DeltaFunction ==
    lastEmit # NoEmit =>
        LET pixels == IF lastEmit.axis = "x" THEN lastEmit.deltaX ELSE -lastEmit.deltaY
            tenths == IF lastEmit.mode = "translate" THEN 10
                      ELSE IF lastEmit.mode = "rotate" THEN 5 ELSE 1
        IN /\ lastEmit.delta * 10 = lastEmit.distance * 2 * pixels * tenths
           /\ (lastEmit.axis = "x" /\ lastEmit.mode = "translate"
                 /\ lastEmit.distance = 10000 /\ lastEmit.deltaX = 100)
                => lastEmit.delta = 2000000

\* The X handle was dragged 100 px to the right in translate mode at 10 m,
\* with prims that other drags had already changed.
C9_Witness ==
    /\ lastOp = "GizmoMouseMove"
    /\ lastEmit = [axis |-> "x", mode |-> "translate", distance |-> 10000,
                   deltaX |-> 100, deltaY |-> 0, delta |-> 2000000]
    /\ moves = 2
    /\ prims[PrimId].position_x = 2000000
    /\ prims[PrimId].scale_y # 1000000

\* C10: a drag session (draggingAxis set) exists exactly while a button
\* pressed on a handle is still down; only a pointer-down on a handle creates
\* it, only the pointer-up destroys it, and the listeners of at most the one
\* session are installed.
C10_SessionLifetime ==
    /\ []((draggingAxis # NoAxis) <=> handleHeld)
    /\ []((draggingAxis # NoAxis) <=> (dragStart # NoStart))
    /\ [](listener # NoListener => listener.axis = draggingAxis)
    /\ [][(draggingAxis = NoAxis /\ draggingAxis' # NoAxis)
             => lastOp' = "GizmoPointerDown"]_vars
    /\ [][(draggingAxis # NoAxis /\ draggingAxis' = NoAxis)
             => lastOp' = "GizmoMouseUp"]_vars

\* A second session on another handle has just been ended by its pointer-up.
C10_Witness ==
    /\ lastOp = "GizmoMouseUp"
    /\ draggingAxis = NoAxis
    /\ listener = NoListener
    /\ ~handleHeld
    /\ moves = 2
    /\ lastEmit.axis = "y"
    /\ prims[PrimId].position_x # 0


\* C11: whenever a gizmo drag session is active, the exclusive-input flag the
\* camera tests (window.__gizmoClicked or window.__primDragging) is set, also
\* for a session that starts while the flag-clearing timeout of the previous
\* session is still armed.
C11_FlagWhileSession ==
    draggingAxis # NoAxis => (gizmoClicked \/ primDragging)

\* C12: a camera mouse-down or mouse-move that arrives while the gizmo's
\* exclusive-input flag is set leaves the orbit azimuth, pitch and pan offset
\* and the camera mode unchanged and starts no rotate or pan gesture.
C12_CameraSuppressed ==
    [][(lastOp' \in {"CamMouseDown", "CamMouseMove"} /\ (gizmoClicked \/ primDragging))
          => UNCHANGED <<azimuth, pitch, panOffset, cameraMode, isDragging, isPanning>>]_vars

\* A camera rotate gesture was under way when a handle was pressed; the mouse
\* moved during the gizmo drag and the camera stayed where it was.
C12_Witness ==
    /\ lastOp = "CamMouseMove"
    /\ isDragging
    /\ primDragging
    /\ handleHeld
    /\ moves > 0
    /\ azimuth = 0
    /\ pitch = INITIAL_PITCH
    /\ panOffset = VZero

C14_NoDeselectFromHandle ==
    (checkRan # NoCheck /\ checkRan.handle = TRUE)
        => (checkRan.flag /\ ~checkRan.deselected)

\* C15: every delta of a drag reaches the server: once no save timeout is
\* armed and no request is running (and none was rejected), no pending update
\* is left over and the local prims equal the server's.
C15_AllDeltasSent ==
    (saveTimeout = 0 /\ saveInFlight = NoRequests /\ rejected = {})
        => (pendingUpdates = NoUpdates /\ prims = serverPrims)

\* C16: after a rejected flush the optimistic update is discarded: no later
\* flush sends a rejected field that the user has not dragged again.
C16_RejectedNotResent ==
    /\ ~resentRejected
    /\ lastOp = "SaveFails" => prims = serverPrims

\* C17: two successive updates sent for the same prim are at least one
\* debounce window (300 ms) apart.
C17_DebounceWindow ==
    [][\A id \in PrimIds :
          (/\ lastOp' = "SaveTimerFires"
           /\ Len(saveInFlight') > Len(saveInFlight)
           /\ saveTimeout = id
           /\ sentAt[id] # -1)
             => now - sentAt[id] >= SAVE_DELAY]_vars

\* The second update for the first prim has just been sent, 300 ms or more
\* after the first one.
C17_Witness ==
    /\ lastOp = "SaveTimerFires"
    /\ Len(saveInFlight) = 1
    /\ saveInFlight[1].prim = PrimId
    /\ serverPrims[PrimId] # InitialPrim
    /\ sentAt[PrimId] >= 2 * SAVE_DELAY
    /\ moves = 2

\* C18: no two texture fetches are in flight at the same time for one cache
\* key, over all regions and all orders of LOD evaluations and fetch
\* callbacks.
C18_NoDuplicateFetch ==
    \A f, g \in BagToSet(tileFetches) :
        /\ CopiesIn(f, tileFetches) = 1
        /\ f # g => f.key # g.key

\* C19: a rejected texture load leaves the tile's tier and texture as they
\* were and releases the in-flight guard, and an evaluation of a visible tile
\* with no load running that selects a tier other than the current one starts
\* the load of that tier: after a failure, the retry.
C19_FailureKeepsTierAndRetries ==
    [][/\ lastOp' = "FetchFails" =>
            /\ currentLOD' = currentLOD
            /\ texture' = texture
            /\ ~textureLoading'
       /\ (/\ lastOp' = "RegionFrame"
           /\ ~textureLoading
           /\ lastCheck' = now'
           /\ meshVisible'
           /\ lodEval'[3] # currentLOD)
          => (textureLoading' /\ fetchLOD' = lodEval'[3])]_vars

\* The first load has failed and an evaluation has started it again.
C19_Witness ==
    /\ lastOp = "RegionFrame"
    /\ currentLOD = -1
    /\ texture = -1
    /\ textureLoading
    /\ evalDist # -1
    /\ fetchLOD = lodEval[3]

\* C20: the camera starts in the avatar (orbit) mode; the mode changes only
\* from avatar to free on the Alt+click of handleMouseDown and from free to
\* avatar on the Escape of handleEscape; right after either change the pan
\* offset is zero, right after entering the free mode its velocity is zero
\* and its focus is set, right after leaving it the focus and position
\* references are null.
C20_ModeTransitions ==
    /\ cameraMode = "avatar"
    /\ [][cameraMode' # cameraMode =>
            /\ panOffset' = VZero
            /\ \/ /\ cameraMode = "avatar"
                  /\ cameraMode' = "free"
                  /\ lastOp' = "CamMouseDown"
                  /\ freeVelocity' = VZero
                  /\ freeFocus'
               \/ /\ cameraMode = "free"
                  /\ cameraMode' = "avatar"
                  /\ lastOp' = "CamKeyDown"
                  /\ ~freeFocus'
                  /\ freePosition' = <<>>]_vars

\* The free mode was entered after a pan, flown in, and has just been left:
\* the velocity it built up is still there, the references are null.
C20_Witness ==
    /\ lastOp = "CamKeyDown"
    /\ cameraMode = "avatar"
    /\ freeVelocity # VZero
    /\ freePosition = <<>>
    /\ ~freeFocus
    /\ panOffset = VZero
    /\ isPanning

\* C21: in every frame in which the avatar's update has published a pose, the
\* camera's update reads that pose: the position and flying flag of its
\* props are those of the state just published.
C21_CameraReadsCurrentPose ==
    [][(lastOp' = "CameraFrame" /\ tickPhase = "avatar")
       => /\ avatarProp.p = ToMm(avatarState.position)
          /\ avatarProp.flying = avatarState.isFlying]_vars

\* C22: the avatar's position, yaw and flying flag are written by the
\* avatar's per-frame update only.
C22_PoseWrittenByFrameOnly ==
    [][<<pos, rotation, isFlying>>' # <<pos, rotation, isFlying>>
       => lastOp' = "AvatarFrame"]_vars

\* C23: a frame of the free camera does not carry the velocity past the
\* desired velocity: every component of the new velocity lies between its old
\* value and the desired one.
C23_NoOvershoot ==
    [][(lastOp' = "CameraFrame" /\ cameraMode = "free")
       => LET speed   == IF ctrlPressed THEN FREE_CAMERA_SPEED_SLOW
                         ELSE IF shiftPressed THEN FREE_CAMERA_SPEED_FAST
                         ELSE FREE_CAMERA_SPEED
              desired == DesiredVelocity(camKeys, freeRotation[2], speed)
          IN \A i \in 1..3 :
                /\ freeVelocity'[i] >= Min(freeVelocity[i], desired[i])
                /\ freeVelocity'[i] <= Max(freeVelocity[i], desired[i])]_vars

\* C24: whatever numbers the wheel, the pointer and the gizmo hand in, finite
\* or not, the orbit distance and pitch stay within their ranges and every
\* scale of the prim stays a finite number of at least 0.1.
C24_NonFiniteNotPropagated ==
    /\ camDistance >= MIN_DISTANCE /\ camDistance <= MAX_DISTANCE
    /\ pitch >= MIN_PITCH /\ pitch <= MAX_PITCH
    /\ \A f \in ScaleFields :
          Finite(prims[PrimId][f]) /\ prims[PrimId][f] >= MIN_SCALE

\* C25: while the load of a tile is running no further load is started for it
\* (the running load stays the one started at fetchId, for the lod it was started
\* for) and currentLOD does not change; currentLOD changes only when a running
\* load resolves, and then to the lod that load was started for, whatever tier
\* the evaluations have selected in the meantime.
C25_GuardedLoadAndTier ==
    [][/\ (textureLoading /\ textureLoading')
            => (fetchId' = fetchId /\ fetchLOD' = fetchLOD /\ currentLOD' = currentLOD)
       /\ (fetchId' # fetchId /\ fetchId' # -1) => ~textureLoading
       /\ (currentLOD' # currentLOD)
            => (textureLoading /\ ~textureLoading' /\ lastOp' = "FetchSucceeds"
                /\ currentLOD' = fetchLOD)]_vars

\* A load has resolved and set the tier it was started for, after an evaluation
\* made while it ran had selected another tier.
C25_Witness ==
    /\ lastOp = "FetchSucceeds"
    /\ lodEval # <<>>
    /\ lodEval[2] # currentLOD
    /\ lodEval[3] # currentLOD

\* C26: a key enters TILE_CACHE only in the step in which a fetch for that key
\* succeeds, a highres key only when the fetches of all four tiles of its grid
\* have succeeded; every cached tile key has had a successful fetch; and no
\* step other than clearTileCache removes a key.
C26_CacheGrowsOnSuccessOnly ==
    [][/\ \A k \in tileCache' \ tileCache :
             IF k[1] = "tile"
             THEN /\ lastOp' = "TileFetchSucceeds"
                  /\ \E f \in BagToSet(tileFetches) :
                        /\ f.key = k
                        /\ tileFetches' = tileFetches (-) SetToBag({f})
             ELSE \A t \in SubTiles(<<k[2], k[3]>>) : TileKey(t) \in fetched'
       /\ \A k \in tileCache' : k[1] = "tile" => k \in fetched'
       /\ lastOp' # "clearTileCache" => tileCache \subseteq tileCache']_vars

\* The last fetch of a High load has succeeded and stored the highres entry,
\* after a clearTileCache that ran during the load.
C26_Witness ==
    /\ lastOp = "TileFetchSucceeds"
    /\ HighResKey(FirstTile) \in tileCache
    /\ TileKey(FirstTile) \notin tileCache
    /\ regionLoad[1].cur = 0

\* C27: each ground probe (the avatar's and the camera's) rebuilds its cache of
\* planes only in a frame in which more than CACHE_INTERVAL ms have passed since
\* its last rebuild or its cache is empty, the cache changes in no other step,
\* and two rebuilds that found the cache filled are more than CACHE_INTERVAL ms
\* apart.
C27_RebuildThrottled ==
    [][/\ lastCacheUpdate' # lastCacheUpdate
            => /\ lastOp' = "AvatarFrame"
               /\ lastCacheUpdate' = now'
               /\ (now' - lastCacheUpdate > CACHE_INTERVAL \/ cachedPlanes = {})
       /\ cachedPlanes' # cachedPlanes => lastCacheUpdate' # lastCacheUpdate
       /\ camLastCacheUpdate' # camLastCacheUpdate
            => /\ lastOp' = "CameraFrame"
               /\ camLastCacheUpdate' = now'
               /\ (now' - camLastCacheUpdate > CACHE_INTERVAL \/ camCachedPlanes = {})
       /\ camCachedPlanes' # camCachedPlanes => camLastCacheUpdate' # camLastCacheUpdate
       /\ \A probe \in {"avatar", "camera"} :
             Len(rebuilds'[probe]) = 2
                => rebuilds'[probe][2] - rebuilds'[probe][1] > CACHE_INTERVAL]_vars

\* Both probes have rebuilt a filled cache twice.
C27_Witness ==
    /\ Len(rebuilds.avatar) = 2
    /\ Len(rebuilds.camera) = 2
    /\ cachedPlanes # {}
    /\ camCachedPlanes # {}

\* C28: a camera frame raises the target height to the minimal camera height,
\* or changes the orbit pitch, only if the mode is avatar, the avatar is not
\* flying, its height is below 10 and the distance is above 4; in a frame where
\* one of these fails, a frame of the free camera among them, the target is not
\* raised and the pitch stays as it was.  No other step raises the target.
C28_ClampOnlyWhenGrounded ==
    [][/\ (lastOp' = "CameraFrame" /\ (targetClamped' \/ pitch' # pitch))
            => /\ cameraMode = "avatar"
               /\ ~avatarProp.flying
               /\ avatarProp.p[2] < 10000
               /\ camDistance > 4000
       /\ lastOp' # "CameraFrame" => ~targetClamped']_vars

\* A frame has left the target below the minimal camera height, the avatar
\* hovering near the ground, and has left the pitch at its lower limit.
C28_Witness ==
    /\ lastOp = "CameraFrame"
    /\ cameraMode = "avatar"
    /\ avatarProp.flying
    /\ avatarProp.p[2] < 10000
    /\ camDistance > 4000
    /\ OrbitTarget(smoothedAvatar, camDistance, azimuth, pitch, panOffset)[2]
          < MinCameraHeight(scene, OrbitTarget(smoothedAvatar, camDistance, azimuth,
                                               pitch, panOffset))
    /\ pitch = MIN_PITCH
    /\ ~targetClamped

\* C29: while a drag session lasts (draggingAxis is set before and after the
\* step) the axis stays the one set by the pointer-down that began the session,
\* and every delta a mousemove emits during the session is emitted on that axis.
C29_AxisFixedInSession ==
    [][/\ (draggingAxis # "none" /\ draggingAxis' # "none")
            => draggingAxis' = draggingAxis
       /\ (lastOp' = "GizmoMouseMove" /\ draggingAxis # "none")
            => lastEmit'.axis = draggingAxis]_vars

\* C30: over the applied evaluations made in a row at one distance the tier
\* does not change after the second evaluation and never comes back to a tier
\* it has left; the tier an evaluation selects is not mapped back at the same
\* distance to the tier it came from; and no evaluation goes from High (0) to
\* Low (2) or from Low to High.
C30_TierSettles ==
    /\ LET s == holdRun.tiers
       IN /\ \A i \in 1..Len(s) : i >= 3 => s[i] = s[3]
          /\ \A i, j, k \in 1..Len(s) :
                (i < j /\ j < k /\ s[j] # s[i]) => s[k] # s[i]
          /\ \A i \in 1..(Len(s) - 1) : {s[i], s[i + 1]} # {0, 2}
    /\ lodEval # <<>> =>
          /\ lodEval[3] # lodEval[2]
                => getTextureLOD(lodEval[1], lodEval[3]) # lodEval[2]
          /\ {lodEval[2], lodEval[3]} # {0, 2}

\* Four evaluations in a row beyond the Medium exit threshold have taken the
\* tile from High to Medium to Low, where it stayed.
C30_Witness ==
    /\ holdRun.tiers = <<0, 1, 2, 2, 2>>
    /\ holdRun.d > MEDIUM_RES_DISTANCE_HYSTERESIS
    /\ currentLOD = 2

\* C31: when an update request of a prim resolves and a drag delta of that prim
\* was recorded while the request was running, the delta is still pending
\* afterwards (so that a later flush can send it).
C31_LateDeltaStaysPending ==
    [][\A i \in DOMAIN saveInFlight :
          (/\ lastOp' = "SaveSucceeds"
           /\ saveInFlight' = RemoveAt(saveInFlight, i)
           /\ serverPrims' = [serverPrims EXCEPT ![saveInFlight[i].prim] =
                                 Spread(@, saveInFlight[i].updates)]
           /\ saveInFlight[i].touched # {})
          => saveInFlight[i].prim \in DOMAIN pendingUpdates']_vars

\* C32: an avatar frame taken while the camera mode is FreeFly changes nothing of
\* the avatar: position, yaw, isFlying, isWalking, vertical velocity and the
\* fly-toggle latch keep their values and no pose is published, whatever keys
\* are held.
C32_FreeFlyFreezesAvatar ==
    [][(lastOp' = "AvatarFrame" /\ cameraMode = "free")
          => UNCHANGED <<pos, rotation, isFlying, isWalking, velY, fKeyProcessed,
                         avatarState>>]_vars

C32_Witness ==
    /\ lastOp = "AvatarFrame"
    /\ cameraMode = "free"
    /\ tickPhase = "skipped"
    /\ "f" \in keys
    /\ "w" \in keys

\* C33: while the camera mode is FreeFly, a pointer move or a wheel event leaves
\* the Orbit parameters (distance, azimuth, pitch) unchanged.
C33_FreeFlyKeepsOrbit ==
    [][(cameraMode = "free" /\ lastOp' \in {"CamMouseMove", "CamWheel"})
          => UNCHANGED <<camDistance, azimuth, pitch>>]_vars

\* C34: while a gizmo drag session lasts (its mousemove listener is installed
\* before and after the step) the mode in which the listener applies the deltas
\* stays the mode of the drag start, whatever key is pressed meanwhile.
C34_ModeFixedInSession ==
    [][(listener # NoListener /\ listener' # NoListener)
          => listener'.mode = listener.mode]_vars

\* One drag of a translate handle followed from its pointer-down, the camera
\* staying at one distance: mousemoves with or without a render between them.
NextDrag ==
    \/ SelectPrim(PrimId)
    \/ \E a \in DragAxes, m \in DragOrigins :
            draggingAxis = NoAxis /\ GizmoPointerDown(a, m)
    \/ \E m \in DragPoints : GizmoMouseMove(m, DragDistance)
    \/ GizmoRender

InitDrag == InitGizmo

SpecDrag == InitDrag /\ [][NextDrag]_vars

C35_WitnessRendered ==
    /\ dragOrigin # NoOrigin
    /\ moves = 2
    /\ lastOp = "GizmoMouseMove"
    /\ listener.start # dragOrigin.point
    /\ dragStart # listener.start
    /\ prims[editingPrim] # listener.prims[editingPrim]

\* Flying up or down from the spawn point over the default plane and toggling
\* flight off in the air: the user acts in the first LandKeysBy ms, frames go
\* on until MaxLandNow, which is after the longest fall.
LandKeys == {"f", " ", "shift"}
LandDeltas == {50}
LandKeysBy == 2000
MaxLandNow == 14000

LandFrame == \E dt \in LandDeltas : now + dt * MS_PER_CS <= MaxLandNow /\ AvatarFrame(dt)

NextLand ==
    \/ \E k \in LandKeys : now <= LandKeysBy /\ KeyDown(k)
    \/ \E k \in LandKeys : now <= LandKeysBy /\ KeyUp(k)
    \/ LandFrame
    \/ \E p \in CamPositions, r \in CamEulers :
            now <= LandKeysBy /\ CamMouseDown(AltClick, p, r)
    \/ now <= LandKeysBy /\ CamKeyDown("escape")

InitLand == InitMode

\* useFrame runs on every animation frame
SpecLand == InitLand /\ [][NextLand]_vars /\ WF_vars(LandFrame)

\* minHeight under the avatar: ground height + AVATAR_HEIGHT / 2
GroundUnder == ProbeMinHeight(scene, pos[1], pos[2], pos[3])

\* The last toggle of the F key (still held) turned flight off, and the avatar
\* is above the ground.
ToggledOffAirborne == fKeyProcessed /\ ~isFlying /\ pos[2] > GroundUnder

Rested == ~isFlying /\ pos[2] = GroundUnder /\ velY >= 0

RestedStays ==
    [][(Rested /\ lastOp' = "AvatarFrame" /\ ~isFlying') => Rested']_vars

\* C36 as stated: once flight is toggled off with the avatar in the air, a frame
\* is reached at which it rests on the ground (y = ground height + 1.0, vertical
\* velocity not negative) unless flight is toggled on again, and it stays at
\* rest over the frames that follow.
C36_EventuallyRests ==
    /\ ToggledOffAirborne ~> (Rested \/ isFlying)
    /\ RestedStays

\* C36 with the camera mode taken into account: the avatar comes to rest unless
\* flight is toggled on again or the camera mode becomes FreeFly.
C36_RestsInOrbit ==
    /\ ToggledOffAirborne ~> (Rested \/ isFlying \/ cameraMode = "free")
    /\ RestedStays

\* the last frame in the air of the longest fall: flight was toggled off on the
\* way up, and the avatar comes down with F still held
C36_Witness ==
    /\ ToggledOffAirborne
    /\ cameraMode = "avatar"
    /\ lastOp = "AvatarFrame"
    /\ velY < 0
    /\ now = 11000

\* at rest after flight was toggled off
C36_WitnessRested ==
    /\ Rested
    /\ fKeyProcessed
    /\ cameraMode = "avatar"
    /\ lastOp = "AvatarFrame"
    /\ now = 11500

\* The awaited tile load of loadTextureForLOD settles, one way or the other.
FetchSettles == FetchSucceeds \/ FetchFails

\* The image request behind a load ends with its load or its error event, so a
\* load that is running does not stay awaited for ever.
SpecFetch == InitHold /\ [][NextHold]_vars /\ WF_vars(FetchSettles)

\* C37: every texture load that holds the tile's in-flight guard is followed by
\* a state in which the guard is released, and the step that settles a load,
\* by success or by failure, is the one that releases it.
C37_GuardReleased ==
    /\ textureLoading ~> ~textureLoading
    /\ [][(lastOp' \in {"FetchSucceeds", "FetchFails"}) => ~textureLoading']_vars

\* a load started by a tier change has failed and the guard is free
C37_Witness ==
    /\ lastOp = "FetchFails"
    /\ ~textureLoading
    /\ currentLOD # -1
    /\ lodEval # <<>>
    /\ lodEval[3] # currentLOD

\* a load started by a tier change has succeeded and the guard is free
C37_WitnessSuccess ==
    /\ lastOp = "FetchSucceeds"
    /\ ~textureLoading
    /\ lodEval # <<>>
    /\ lodEval[3] = currentLOD
    /\ lodEval[2] # currentLOD

-----------------------------------------------------------------------------
(* BuildTool: the property form and its debounced update                    *)

\* The fields and the values typed into the form (1e-6 units).
FormFields == {"position_x", "scale_x"}
FormValues == {2000000, 3000000}
MaxFormRequests == 2

\* The sync effect of BuildTool on the editingPrim prop: the prim of its own
\* prims with that id becomes the prim of the form.
ExternalEditingEffect ==
    /\ editingPrim # 0
    /\ extPending \/ btEditing = NoUpdates
    /\ btEditing' = btPrims[editingPrim]
    /\ extPending' = FALSE
    /\ lastOp' = "ExternalEditingEffect"
    /\ targetClamped' = FALSE
    /\ UNCHANGED <<deselectCheck, checkRan, btPrims, updateTimeout, formRequests,
                   formEdited, formFailed>>
    /\ UNCHANGED <<now, tileVars, avatarVars, cameraVars, flagVars, gizmoVars, saveHist,
                   loaderVars, publishVars, probeHist>>

\* handleChange of PrimEditForm and handlePropertyChange of BuildTool: the
\* form and World's prims take the value; the armed timeout is replaced by one
\* that holds the updates of this call.
FormEdit(field, value) ==
    /\ btEditing # NoUpdates
    /\ editingPrim # 0
    /\ btEditing[field] # value
    /\ LET updates == (field :> value) IN
       /\ btEditing' = Spread(btEditing, updates)
       /\ prims' = [prims EXCEPT ![editingPrim] = Spread(@, updates)]
       /\ updateTimeout' = [prim |-> editingPrim, updates |-> updates]
       /\ formEdited' = Spread(formEdited, updates)
    /\ extPending' = TRUE
    /\ lastOp' = "FormEdit"
    /\ targetClamped' = FALSE
    /\ UNCHANGED <<deselectCheck, checkRan, btPrims, formRequests, formFailed>>
    /\ UNCHANGED <<draggingAxis, dragStart, listener, gizmoMode, editingPrim,
                   serverPrims, pendingUpdates, saveTimeout, saveInFlight, clearTimers,
                   handleHeld, lastEmit, moves, dragOrigin>>
    /\ UNCHANGED <<now, tileVars, avatarVars, cameraVars, flagVars, saveHist,
                   loaderVars, publishVars, probeHist>>

\* The 500 ms timeout fires and calls PrimService.updatePrim with its updates.
FormTimerFires ==
    /\ updateTimeout # NoUpdates
    /\ Len(formRequests) < MaxFormRequests
    /\ formRequests' = Append(formRequests, [kind |-> "update",
                                             prim |-> updateTimeout.prim,
                                             updates |-> updateTimeout.updates])
    /\ updateTimeout' = NoUpdates
    /\ lastOp' = "FormTimerFires"
    /\ targetClamped' = FALSE
    /\ UNCHANGED <<deselectCheck, checkRan, btPrims, btEditing, extPending, formEdited,
                   formFailed>>
    /\ UNCHANGED <<now, tileVars, avatarVars, cameraVars, flagVars, gizmoVars, saveHist,
                   loaderVars, publishVars, probeHist>>

\* updatePrim resolves: the server has stored the fields of the request, and
\* the callback goes on to loadPrims.
FormUpdateResolves(i) ==
    /\ i \in DOMAIN formRequests
    /\ formRequests[i].kind = "update"
    /\ serverPrims' = [serverPrims EXCEPT ![formRequests[i].prim] =
                          Spread(@, formRequests[i].updates)]
    /\ formRequests' = [formRequests EXCEPT ![i] = [kind |-> "reload"]]
    /\ lastOp' = "FormUpdateResolves"
    /\ targetClamped' = FALSE
    /\ UNCHANGED <<deselectCheck, checkRan, btPrims, btEditing, updateTimeout,
                   extPending, formEdited, formFailed>>
    /\ UNCHANGED <<draggingAxis, dragStart, listener, gizmoMode, editingPrim, prims,
                   pendingUpdates, saveTimeout, saveInFlight, clearTimers, handleHeld,
                   lastEmit, moves, dragOrigin>>
    /\ UNCHANGED <<now, tileVars, avatarVars, cameraVars, flagVars, saveHist,
                   loaderVars, publishVars, probeHist>>

\* updatePrim rejects: the catch logs the error; nothing is reloaded.
FormUpdateFails(i) ==
    /\ i \in DOMAIN formRequests
    /\ formRequests[i].kind = "update"
    /\ formRequests' = RemoveAt(formRequests, i)
    /\ formFailed' = TRUE
    /\ lastOp' = "FormUpdateFails"
    /\ targetClamped' = FALSE
    /\ UNCHANGED <<deselectCheck, checkRan, btPrims, btEditing, updateTimeout,
                   extPending, formEdited>>
    /\ UNCHANGED <<now, tileVars, avatarVars, cameraVars, flagVars, gizmoVars, saveHist,
                   loaderVars, publishVars, probeHist>>

\* loadPrims resolves: setPrims(loadedPrims), and the effect on prims makes the
\* loaded prim the prim of the form.
FormReloadResolves(i) ==
    /\ i \in DOMAIN formRequests
    /\ formRequests[i].kind = "reload"
    /\ btPrims' = serverPrims
    /\ btEditing' = IF btEditing # NoUpdates /\ editingPrim # 0
                    THEN serverPrims[editingPrim] ELSE btEditing
    /\ formRequests' = RemoveAt(formRequests, i)
    /\ lastOp' = "FormReloadResolves"
    /\ targetClamped' = FALSE
    /\ UNCHANGED <<deselectCheck, checkRan, updateTimeout, extPending, formEdited,
                   formFailed>>
    /\ UNCHANGED <<now, tileVars, avatarVars, cameraVars, flagVars, gizmoVars, saveHist,
                   loaderVars, publishVars, probeHist>>

NextForm ==
    \/ SelectPrim(PrimId)
    \/ ExternalEditingEffect
    \/ \E f \in FormFields, v \in FormValues : FormEdit(f, v)
    \/ FormTimerFires
    \/ \E i \in 1..MaxFormRequests : FormUpdateResolves(i)
    \/ \E i \in 1..MaxFormRequests : FormUpdateFails(i)
    \/ \E i \in 1..MaxFormRequests : FormReloadResolves(i)

InitForm == InitGizmo

SpecForm == InitForm /\ [][NextForm]_vars

\* C38: once no timeout of the form is armed, none of its requests is running
\* and none was rejected, every field edited in the form has its last typed
\* value on the server and in the form.
C38_EditsPersisted ==
    (/\ updateTimeout = NoUpdates
     /\ formRequests = NoRequests
     /\ ~extPending
     /\ ~formFailed
     /\ formEdited # NoUpdates)
        => \A f \in DOMAIN formEdited :
              /\ serverPrims[PrimId][f] = formEdited[f]
              /\ btEditing[f] = formEdited[f]

=============================================================================
